---- MODULE Spec2Model ----
(***************************************************************************)
(* Model of the FTPR onboarding Slack bot: the DevLake client              *)
(* (common/devlake_api.py) and the Slack handlers that drive it            *)
(* (slack_bot.py).  The remote DevLake instance is modelled by the state   *)
(* it holds (connections, scope-configs, projects with their blueprint)    *)
(* and by the answer it gives to each call.                                *)
(*                                                                         *)
(* Specifications:                                                         *)
(*   SpecClient  one caller inside _make_request, one step per HTTP        *)
(*               request and per change of the session                     *)
(*   SpecClientShared  the same steps, taken by threads that share the     *)
(*               client                                                    *)
(*   Spec        one provisioning request (create form, direct             *)
(*               create_multi_platform_project / create_full_project call, *)
(*               add-repos form) served step by step, each step one        *)
(*               logical remote call that returns or raises                *)
(*   SpecSeq     several provisioning requests served one after the other  *)
(*   SpecResolve the repository resolver, call by call                     *)
(*   SpecModal   open_add_repos_modal with its three reads on a thread     *)
(*               pool, interleaved                                         *)
(*   SpecPar     two handle_add_repos submissions interleaved call by call *)
(*   SpecChat    the list commands, the pagination buttons and the direct  *)
(*               messages; SpecChatFair adds the progress of the list-all  *)
(*               loop                                                      *)
(***************************************************************************)
EXTENDS Integers, Sequences, FiniteSets, TLC

VARIABLES
    api_token,   \* DevLakeAPI._api_token ("" when none was configured)
    session,     \* DevLakeAPI.session: its headers
    http,        \* the exchange of the call that just ended, and the calls in flight
    rConfigs,    \* remote: <<plugin, connection id>> -> list of scope-config ids
    rProjects,   \* remote: project name -> [exists, connections, cron]
    rPipelines,  \* remote: number of pipelines triggered so far
    createdSC,   \* remote: <<plugin, connection id>> -> scope-configs created by this client
    pc,          \* position of the request being served
    req,         \* arguments of the request being served
    loc,         \* local variables of the running handler
    log,         \* logical remote calls issued by the request being served, in order
    out,         \* how the request ended: returned value or raised exception
    msgs,        \* Slack acks and messages sent by the handler of the request, in order
    ops,         \* number of requests started so far
    rs,          \* the run of the repository resolver: input, calls, outcome
    modal,       \* the run of open_add_repos_modal: its three reads, messages, form
    par,         \* two add-repos submissions running at the same time, one record each
    chat         \* the run of a list command, a pagination click or a direct message

clientVars == <<api_token, session, http>>
remoteVars == <<rConfigs, rProjects, rPipelines, createdSC>>
requestVars == <<pc, req, loc, log, out, msgs, ops>>
resolverVars == <<rs>>
modalVars == <<modal>>
parVars == <<par>>
chatVars == <<chat>>

vars == <<api_token, session, http, rConfigs, rProjects, rPipelines, createdSC,
          pc, req, loc, log, out, msgs, ops, rs, modal, par, chat>>

-----------------------------------------------------------------------------
(* Bounds of the model *)

\* provisioning requests served, one after the other, in a behaviour of SpecSeq
MaxOps == 2
\* longest list of GitHub repositories in one request
MaxGithubRepos == 2
\* longest list of GitLab projects in one request
MaxGitlabRepos == 1

-----------------------------------------------------------------------------
(* Values *)

Plugins == {"github", "gitlab"}

\* Repository strings a user types, and the native id the hosting platform gives each
GithubRepos == {"ok/repo1", "bad/repo2", "acme/widget"}
GitlabRepos == {"grp/proj"}
ReposOf(p) == IF p = "github" THEN GithubRepos ELSE GitlabRepos
NativeId(repo) ==
    CASE repo = "ok/repo1" -> 101
      [] repo = "bad/repo2" -> 102
      [] repo = "acme/widget" -> 103
      [] OTHER -> 201

ProjectNames == {"demo", "other"}

SeqsUpTo(S, n) == UNION {[1..k -> S] : k \in 0..n}

\* str(int) for the ids that appear in endpoints and blueprint scope ids
Digit == <<"0", "1", "2", "3", "4", "5", "6", "7", "8", "9">>
RECURSIVE str(_)
str(n) == IF n < 10 THEN Digit[n + 1] ELSE str(n \div 10) \o Digit[(n % 10) + 1]

Range(s) == {s[i] : i \in DOMAIN s}

MaxOf(S) == IF S = {} THEN 0 ELSE CHOOSE m \in S : \A x \in S : x <= m

\* the entries of the call log l with operation o
OpsOf(l, o) == {i \in DOMAIN l : l[i].op = o}
CountOp(l, o) == Cardinality(OpsOf(l, o))

-----------------------------------------------------------------------------
(* slack_bot.py: the schedule table *)

CRON_SCHEDULES ==
    [k \in {"daily", "weekly", "every_6h", "every_12h"} |->
        CASE k = "daily" -> "0 0 * * *"
          [] k = "weekly" -> "0 0 * * 1"
          [] k = "every_6h" -> "0 */6 * * *"
          [] k = "every_12h" -> "0 */12 * * *"]

\* the schedule values a submission can carry: the four options of the form and one
\* value the form does not offer
ScheduleKeys == DOMAIN CRON_SCHEDULES \cup {"hourly"}

-----------------------------------------------------------------------------
(* devlake_api.py: the client and _make_request *)

\* DevLakeAPI.base_url, also the dashboard URL of a result
BaseUrl == "https://devlake.example"

\* What the transport gives back for one HTTP request: a response with a status
\* code, or a requests.exceptions.RequestException (timeout, connection error)
Status(c) == [kind |-> "status", code |-> c]
TransportError == [kind |-> "exc", code |-> 0]

\* A 200 whose body is not JSON: response.json() raises the library's
\* JSONDecodeError, which is a RequestException from requests 2.27 on and a plain
\* ValueError before; the source pins no version
MalformedBody(k) == [kind |-> k, code |-> 200]
JsonErrors == {"json_request_exc", "json_value_error"}

Responses ==
    {Status(200), Status(401), Status(500), Status(600), TransportError}
        \cup {MalformedBody(k) : k \in JsonErrors}

\* requests.Session() with the Authorization header set when a token is held
NewSession(token) ==
    [auth |-> IF token # "" THEN "Bearer " \o token ELSE ""]

\* response.raise_for_status(): HTTPError for a client error (400 to 499) or a
\* server error (500 to 599), nothing for any other code
raise_for_status(code) == 400 <= code /\ code < 600

NoError == [kind |-> "", text |-> <<>>]

\* DevLakeAPIError(f"API request failed: {str(e)}"), its text kept as its parts
ApiError(message) ==
    [kind |-> "DevLakeAPIError", text |-> <<"API request failed: ">> \o message]

\* The exception that leaves _make_request when r is the last response: a
\* RequestException (transport error, HTTPError of raise_for_status, JSONDecodeError
\* of a recent requests) is wrapped in DevLakeAPIError; anything else passes through
Failure(first, r) ==
    CASE r.kind = "exc" -> ApiError(<<"Read timed out. (read timeout=30)">>)
      [] r.kind = "json_request_exc" ->
            ApiError(<<"Expecting value: line 1 column 1 (char 0)">>)
      [] r.kind = "json_value_error" ->
            [kind |-> "ValueError",
             text |-> <<"Expecting value: line 1 column 1 (char 0)">>]
      [] r.kind = "status" /\ raise_for_status(r.code) ->
            ApiError(<<str(r.code), " Error for url: ", BaseUrl, first.endpoint>>)
      [] OTHER -> NoError

\* what logger.error writes when the exception is a RequestException
ErrorLog(first, r) ==
    IF Failure(first, r).kind = "DevLakeAPIError"
    THEN <<"DevLake API request failed: ", first.method, first.endpoint>>
            \o Tail(Failure(first, r).text)
    ELSE <<>>

\* self.session = requests.Session(): the new session has no Authorization header
FreshSession == [auth |-> ""]

\* Variant of the header step that takes the token from the body of the request
set_auth_header_body_token(sess, token, first) ==
    [sess EXCEPT !.auth = NewSession(first.body.token).auth]

\* if self._api_token: self.session.headers.update({'Authorization': ...}), on the
\* session the client holds at that moment
set_auth_header(sess, token, first) ==
    IF token # "" THEN [sess EXCEPT !.auth = "Bearer " \o token] ELSE sess

\* Variant of the retry that gives up after the 401 instead of sending again
make_request_no_retry(sess, first, r2) ==
    [requests |-> <<first>>, refreshed |-> TRUE,
     raised |-> TRUE, error |-> Failure(first, Status(401)),
     logged |-> ErrorLog(first, Status(401))]

\* Variant of the retry that does not raise when the second attempt fails
make_request_retry_quiet(sess, first, r2) ==
    [requests |-> <<first, [first EXCEPT !.auth = sess.auth]>>, refreshed |-> TRUE,
     raised |-> FALSE, error |-> NoError, logged |-> <<>>]

\* The retry after a 401: the same request once more, on the session the client
\* holds when it is sent
make_request_retry(sess, first, r2) ==
    LET second == [first EXCEPT !.auth = sess.auth]
    IN  [requests |-> <<first, second>>, refreshed |-> TRUE,
         raised |-> Failure(first, r2).kind # "", error |-> Failure(first, r2),
         logged |-> ErrorLog(first, r2)]

\* The first request of a logical call, on the session the client holds, answered
\* by r1 (not a 401): what is sent and whether DevLakeAPIError is raised
make_request(sess, method, endpoint, body, r1) ==
    LET first == [method |-> method, endpoint |-> endpoint, body |-> body,
                  auth |-> sess.auth]
    IN  [requests |-> <<first>>, refreshed |-> FALSE,
         raised |-> Failure(first, r1).kind # "", error |-> Failure(first, r1),
         logged |-> ErrorLog(first, r1)]

\* JSON body of a call: what it is, and the hosting-provider token it holds ("" if
\* none)
Body(what, token) == [json |-> what, token |-> token]

\* tokens of the hosting providers a request can supply
HostingTokens == {"ghp_x", "glpat_x"}

\* The calls the client's methods make: method, endpoint and JSON body
ClientCalls ==
    {[method |-> "POST", endpoint |-> "/api/plugins/github/connections",
      body |-> Body("connection", "ghp_x")],
     [method |-> "POST", endpoint |-> "/api/plugins/gitlab/connections",
      body |-> Body("connection", "glpat_x")],
     [method |-> "POST", endpoint |-> "/api/plugins/github/connections/1/scope-configs",
      body |-> Body("scope-config", "")],
     [method |-> "GET", endpoint |-> "/api/plugins/github/connections/1/scope-configs",
      body |-> Body("", "")],
     [method |-> "GET", endpoint |-> "/api/plugins/github/connections/1/remote-scopes",
      body |-> Body("", "")],
     [method |-> "PUT", endpoint |-> "/api/plugins/github/connections/1/scopes",
      body |-> Body("scopes", "")],
     [method |-> "POST", endpoint |-> "/api/projects", body |-> Body("project", "")],
     [method |-> "GET", endpoint |-> "/api/projects/demo", body |-> Body("", "")],
     [method |-> "PATCH", endpoint |-> "/api/blueprints/11",
      body |-> Body("connections", "")],
     [method |-> "POST", endpoint |-> "/api/blueprints/11/trigger", body |-> Body("", "")]}

\* the threads that call the one shared client: Bolt's listener threads and the
\* pool threads of open_add_repos_modal
NumThreads == 2
Threads == 1..NumThreads

NoCall == [method |-> "", endpoint |-> "", body |-> Body("", "")]

\* a thread that is not inside _make_request
Idle ==
    [pc |-> "idle", call |-> NoCall, overlapped |-> FALSE,
     first |-> [method |-> "", endpoint |-> "", body |-> Body("", ""), auth |-> ""]]

\* http holds the exchange of the logical call that returned or raised in the last
\* step (none if the last step ended no call) and, per thread, the call it is in
NoHttp == [call |-> NoCall,
           requests |-> <<>>, responses |-> <<>>, refreshed |-> FALSE, raised |-> FALSE,
           error |-> NoError, logged |-> <<>>, overlapped |-> FALSE,
           inflight |-> [t \in Threads |-> Idle]]

\* the record of a call that ends with outcome mr
Ended(c, mr, responses, overlapped, inflight) ==
    [call |-> c, requests |-> mr.requests,
     responses |-> SubSeq(responses, 1, Len(mr.requests)),
     refreshed |-> mr.refreshed, raised |-> mr.raised, error |-> mr.error,
     logged |-> mr.logged, overlapped |-> overlapped, inflight |-> inflight]

\* DevLakeAPI.__init__
ClientInit ==
    /\ api_token \in {"", "dl_tok"}
    /\ session = NewSession(api_token)
    /\ http = NoHttp

\* A method of the client makes its call: the first request goes out on the session
\* the client holds and the transport answers with r1. Any answer but a 401 ends
\* the call; after a 401 the thread goes on to replace the session
ClientCall(Callers, Calls, Answers) ==
    \E t \in Callers, c \in Calls, r1 \in Answers :
        LET mr == make_request(session, c.method, c.endpoint, c.body, r1)
        IN  /\ http.inflight[t].pc = "idle"
            /\ http' = IF r1 = Status(401)
                       THEN [NoHttp EXCEPT !.inflight =
                                [http.inflight EXCEPT ![t] =
                                    [pc |-> "refresh", call |-> c,
                                     first |-> mr.requests[1], overlapped |-> FALSE]]]
                       ELSE Ended(c, mr, <<r1>>, FALSE, http.inflight)
            /\ UNCHANGED <<api_token, session>>
            /\ UNCHANGED <<remoteVars, requestVars, resolverVars, modalVars, parVars, chatVars>>

\* self.session = requests.Session(): the shared session is replaced by one without
\* header; a thread that has set its header and not yet sent its retry is overtaken
client_refresh ==
    \E t \in Threads :
        /\ http.inflight[t].pc = "refresh"
        /\ session' = FreshSession
        /\ http' = [NoHttp EXCEPT !.inflight =
                       [u \in Threads |->
                           IF u = t THEN [http.inflight[u] EXCEPT !.pc = "header"]
                           ELSE IF http.inflight[u].pc = "retry"
                           THEN [http.inflight[u] EXCEPT !.overlapped = TRUE]
                           ELSE http.inflight[u]]]
        /\ UNCHANGED api_token
        /\ UNCHANGED <<remoteVars, requestVars, resolverVars, modalVars, parVars, chatVars>>

\* the Authorization header is put on the session the client holds now
client_header ==
    \E t \in Threads :
        /\ http.inflight[t].pc = "header"
        /\ session' = set_auth_header(session, api_token, http.inflight[t].first)
        /\ http' = [NoHttp EXCEPT !.inflight =
                       [http.inflight EXCEPT ![t].pc = "retry"]]
        /\ UNCHANGED api_token
        /\ UNCHANGED <<remoteVars, requestVars, resolverVars, modalVars, parVars, chatVars>>

\* the same request is sent once more, on the session the client holds now, and the
\* transport answers with r2; that ends the call
ClientRetry(Answers) ==
    \E t \in Threads, r2 \in Answers :
        LET mr == make_request_retry(session, http.inflight[t].first, r2)
        IN  /\ http.inflight[t].pc = "retry"
            /\ http' = Ended(http.inflight[t].call, mr, <<Status(401), r2>>,
                             http.inflight[t].overlapped,
                             [http.inflight EXCEPT ![t] = Idle])
            /\ UNCHANGED <<api_token, session>>
            /\ UNCHANGED <<remoteVars, requestVars, resolverVars, modalVars, parVars, chatVars>>

\* one caller at a time: every call of the client, every answer of the transport
client_call == ClientCall({1}, ClientCalls, Responses)

client_retry == ClientRetry(Responses)

\* The calls and answers of the threads that use the client at the same time: a
\* connection-creation POST and a read, answered 200, 401 or 500
SharedCalls ==
    {c \in ClientCalls :
        c.endpoint \in {"/api/plugins/github/connections", "/api/projects/demo"}}
SharedAnswers == {Status(200), Status(401), Status(500)}

client_call_shared == ClientCall(Threads, SharedCalls, SharedAnswers)

client_retry_shared == ClientRetry(SharedAnswers)

-----------------------------------------------------------------------------
(* The remote DevLake instance *)

ConnKey(p, id) == <<p, id>>

\* ids of the connections of plugin p held by the remote
ConnIds(p) == {k[2] : k \in {x \in DOMAIN rConfigs : x[1] = p}}

\* id the remote gives to the next connection of plugin p
NewConnId(p) == MaxOf(ConnIds(p)) + 1

\* id the remote gives to the next scope-config
NewConfigId == MaxOf(UNION {Range(rConfigs[k]) : k \in DOMAIN rConfigs} \cup {9}) + 1

\* id of the blueprint embedded in a project
BlueprintId(name) == IF name = "demo" THEN 11 ELSE 12

NoProject == [exists |-> FALSE, connections |-> <<>>, cron |-> ""]

\* blueprint connections of a project that was provisioned before the model starts
PriorConnections ==
    <<[pluginName |-> "github", connectionId |-> 1, scopes |-> <<[scopeId |-> "101"]>>]>>

\* One GitHub and one GitLab connection exist, each with or without scope-configs;
\* project "demo" exists or not
RemoteInit ==
    /\ \E c1 \in {<<>>, <<4, 3>>}, c2 \in {<<>>, <<5>>} :
          rConfigs = (ConnKey("github", 1) :> c1) @@ (ConnKey("gitlab", 1) :> c2)
    /\ \E d \in {NoProject,
                 [exists |-> TRUE, connections |-> PriorConnections,
                  cron |-> "0 0 * * *"]} :
          rProjects = [n \in ProjectNames |-> IF n = "demo" THEN d ELSE NoProject]
    /\ rPipelines = 0
    /\ createdSC = [k \in DOMAIN rConfigs |-> 0]

\* the remote stores a new connection of plugin p
RemoteCreateConnection(p, id) ==
    /\ rConfigs' = rConfigs @@ (ConnKey(p, id) :> <<>>)
    /\ createdSC' = createdSC @@ (ConnKey(p, id) :> 0)
    /\ UNCHANGED <<rProjects, rPipelines>>

\* the remote stores a new scope-config for the connection
RemoteCreateConfig(p, c, id) ==
    /\ rConfigs' = [rConfigs EXCEPT ![ConnKey(p, c)] = Append(@, id)]
    /\ createdSC' = [createdSC EXCEPT ![ConnKey(p, c)] = @ + 1]
    /\ UNCHANGED <<rProjects, rPipelines>>

\* the remote stores a project with its embedded blueprint
RemoteCreateProject(name, cron) ==
    /\ rProjects' = [rProjects EXCEPT ![name] =
                        [exists |-> TRUE, connections |-> <<>>, cron |-> cron]]
    /\ UNCHANGED <<rConfigs, rPipelines, createdSC>>

-----------------------------------------------------------------------------
(* Requests and their local state *)

NoReq ==
    [kind |-> "none", project_name |-> "",
     repos |-> [github |-> <<>>, gitlab |-> <<>>],
     token |-> [github |-> "", gitlab |-> ""],
     conn_id |-> [github |-> 0, gitlab |-> 0],
     plugin |-> "", schedule |-> "", cron_config |-> ""]

NoLoc ==
    [plat |-> "-", i |-> 0,
     conn |-> [github |-> 0, gitlab |-> 0],
     scope_config_id |-> 0,
     scope_configs |-> <<>>,
     added_repos |-> <<>>, failed_repos |-> <<>>, added_scope_ids |-> <<>>,
     results |-> <<>>,
     conn_name |-> "", blueprint_id |-> 0, github_id |-> 0,
     run |-> [stage |-> "search", owner_id |-> 0, page |-> 0, calls |-> <<>>],
     time_after |-> [day |-> 0, micro |-> 0],
     connections |-> <<>>, link_error |-> ""]

NoResult ==
    [success |-> FALSE, project |-> "", blueprint_id |-> 0, pipeline_id |-> 0]

NoOut == [status |-> "none", exc |-> "", result |-> NoResult]

RequestInit ==
    /\ pc = "idle"
    /\ req = NoReq
    /\ loc = NoLoc
    /\ log = <<>>
    /\ out = NoOut
    /\ msgs = <<>>
    /\ ops = 0

Logged(entry) == log' = Append(log, entry)

Entry(o, p, c, d) == [op |-> o, plugin |-> p, conn |-> c, data |-> d]

\* Variant of the verb table in which the client removes its scopes with a DELETE
HttpMethodWithDelete(op) ==
    CASE op \in {"create_connection", "create_scope_config", "create_project",
                 "trigger_blueprint"} -> "POST"
      [] op = "add_scope" -> "DELETE"
      [] op = "patch_blueprint" -> "PATCH"
      [] OTHER -> "GET"

\* The HTTP verb each client method hands to _make_request (the public-API lookup of
\* the resolver is a requests.get)
HttpMethod(op) ==
    CASE op \in {"create_connection", "create_scope_config", "create_project",
                 "trigger_blueprint"} -> "POST"
      [] op = "add_scope" -> "PUT"
      [] op = "patch_blueprint" -> "PATCH"
      [] OTHER -> "GET"

-----------------------------------------------------------------------------
(* devlake_api.py: add_scope / add_gitlab_scope *)

\* Bodies the remote gives to PUT .../scopes: a list of {"scope": {...}} items, a list
\* of bare scope objects, an empty list, an empty body (which _make_request turns
\* into {}), JSON null, a list whose item is not an object, a list whose item has
\* "scope": null
Item(shape, id) == [shape |-> shape, id |-> id]
PutBodyKinds ==
    {"wrapped", "flat", "empty_list", "empty_body", "null", "text_item", "null_scope"}
PutBody(kind, id) ==
    CASE kind = "wrapped" -> [is_list |-> TRUE, value |-> <<Item("wrapped", id)>>]
      [] kind = "flat" -> [is_list |-> TRUE, value |-> <<Item("flat", id)>>]
      [] kind = "empty_list" -> [is_list |-> TRUE, value |-> <<>>]
      [] kind = "null" -> [is_list |-> FALSE, value |-> Item("null", 0)]
      [] kind = "text_item" -> [is_list |-> TRUE, value |-> <<Item("text", 0)>>]
      [] kind = "null_scope" -> [is_list |-> TRUE, value |-> <<Item("null_scope", 0)>>]
      [] OTHER -> [is_list |-> FALSE, value |-> Item("empty", 0)]

\* pages of an owner's repositories the GitHub resolver reads at most: range(1, 6)
MaxPages == 5
\* pageSize of the owner/group search, of a GitHub page, of the GitLab page
SearchPageSize == 50
GithubPageSize == 200
GitlabPageSize == 100

\* a GET .../remote-scopes of the resolver, and its GET to api.github.com
SearchCall(plugin, search, group_id, page, page_size) ==
    [api |-> "remote-scopes", plugin |-> plugin, search |-> search,
     groupId |-> group_id, page |-> page, pageSize |-> page_size]

PublicCall(name) ==
    [api |-> "github-public", plugin |-> "github", search |-> name,
     groupId |-> 0, page |-> 0, pageSize |-> 0]

\* owner_name, repo_name = repo_full_name.split("/") for the repository strings of
\* the requests, and the id the remote has for that owner or group
OwnerName(repo) ==
    CASE repo = "ok/repo1" -> "ok"
      [] repo = "bad/repo2" -> "bad"
      [] repo = "acme/widget" -> "acme"
      [] OTHER -> "grp"
GroupIdOf(repo) ==
    CASE repo = "ok/repo1" -> 11
      [] repo = "bad/repo2" -> 12
      [] repo = "acme/widget" -> 13
      [] OTHER -> 21

\* The resolver inside add_scope / add_gitlab_scope, one request at a time: the
\* request it sends next (the owner search, a page of the owner's repositories, the
\* public API), its owner_id and page, and the requests it has sent
NoSearch == [stage |-> "search", owner_id |-> 0, page |-> 0, calls |-> <<>>]

\* What the remote can answer to the request the run sends next. The owner search:
\* an error, no group of that name, the group. A page: an error, the repository with
\* or without its native id, a page without it that has or has not a nextPageToken
\* (search_gitlab_project does not read the token). The public API: an error or a
\* status other than 200, the repository
ResolveAnswers(plugin, run) ==
    CASE run.stage = "search" -> {"error", "no_owner", "owner"}
      [] run.stage = "page" ->
            {"error", "found", "no_id", "last"}
            \cup (IF plugin = "github" THEN {"more"} ELSE {})
      [] OTHER -> {"error", "found"}

ResolveCall(plugin, repo, run) ==
    CASE run.stage = "search" -> SearchCall(plugin, OwnerName(repo), 0, 1, SearchPageSize)
      [] run.stage = "page" ->
            SearchCall(plugin, "", run.owner_id, run.page,
                       IF plugin = "github" THEN GithubPageSize ELSE GitlabPageSize)
      [] OTHER -> PublicCall(repo)

\* One request of search_github_repo / search_gitlab_project and what the resolver
\* does with its answer o: the stage it is in afterwards is the next request, or how
\* it ended ("error": DevLakeAPIError; "found", "no_id": metadata returned)
Resolve(plugin, repo, run, o) ==
    LET r1 == [run EXCEPT !.calls = Append(@, ResolveCall(plugin, repo, run))]
        fallback == [r1 EXCEPT !.stage = IF plugin = "github" THEN "public" ELSE "error"]
    IN  CASE run.stage = "search" ->
               IF o = "error" THEN [r1 EXCEPT !.stage = "error"]
               ELSE IF o = "no_owner" THEN fallback
               ELSE [r1 EXCEPT !.stage = "page", !.owner_id = GroupIdOf(repo), !.page = 1]
          [] run.stage = "page" ->
               IF o \in {"error", "found", "no_id"} THEN [r1 EXCEPT !.stage = o]
               ELSE IF plugin = "gitlab" \/ o = "last" \/ run.page >= MaxPages
               THEN fallback
               ELSE [r1 EXCEPT !.page = @ + 1]
          [] OTHER -> [r1 EXCEPT !.stage = o]

\* What the resolver can hand back: DevLakeAPIError, metadata without the native id,
\* metadata with it
ResolverOutcomes == {"error", "no_id", "found"}

\* What can happen to the PUT once the repository is resolved: <<"found", whether
\* the PUT raises DevLakeAPIError, the body of the PUT's answer>>
PutScenarios ==
    {<<"found", TRUE, "-">>} \cup {<<"found", FALSE, k>> : k \in PutBodyKinds}

\* What can happen to one resolve-and-add: the resolver fails, or the PUT is sent
AddScenarios ==
    {<<"error", FALSE, "-">>, <<"no_id", FALSE, "-">>} \cup PutScenarios

\* The first half of add_scope / add_gitlab_scope: the resolver has ended with
\* `found`, and metadata without a native id is a DevLakeAPIError
SearchFor(plugin, connection_id, repo, found) ==
    LET native == IF found = "found" THEN NativeId(repo) ELSE 0
    IN  [raised |-> found = "error" \/ native = 0, native |-> native,
         call |-> Entry("search", plugin, connection_id, repo)]

\* add_scope and add_gitlab_scope have the same shape: resolve, check the native id,
\* PUT the scope, wrap the answer as {"scopes": [...]}
AddScopeFor(plugin, connection_id, repo, scope_config_id, sc) ==
    LET search == SearchFor(plugin, connection_id, repo, sc[1])
        put == Entry("add_scope", plugin, connection_id,
                     [repo |-> repo, id |-> search.native,
                      scopeConfigId |-> scope_config_id])
        body == PutBody(sc[3], search.native)
    IN  IF search.raised
        THEN [raised |-> TRUE, calls |-> <<search.call>>, scopes |-> <<>>]
        ELSE [raised |-> sc[2], calls |-> <<search.call, put>>,
              scopes |-> IF sc[2] THEN <<>>
                         ELSE IF body.is_list THEN body.value ELSE <<body.value>>]

add_scope(connection_id, repo, scope_config_id, sc) ==
    AddScopeFor("github", connection_id, repo, scope_config_id, sc)

add_gitlab_scope(connection_id, repo, scope_config_id, sc) ==
    AddScopeFor("gitlab", connection_id, repo, scope_config_id, sc)

AddScopeOf(plugin, connection_id, repo, scope_config_id, sc) ==
    IF plugin = "github"
    THEN add_scope(connection_id, repo, scope_config_id, sc)
    ELSE add_gitlab_scope(connection_id, repo, scope_config_id, sc)

\* Variant of the strict read that takes an answer without an id for id 0
TolerantScopeId(scopes) ==
    IF scopes = <<>> THEN [exc |-> "", id |-> 0]
    ELSE IF scopes[1].shape # "wrapped" THEN [exc |-> "", id |-> 0]
    ELSE [exc |-> "", id |-> scopes[1].id]

\* scope['scopes'][0]['scope']['githubId'] (resp. 'gitlabId'): IndexError on an
\* empty list, KeyError on an object without the key, TypeError on an item or a
\* "scope" that is not an object
StrictScopeId(scopes) ==
    IF scopes = <<>> THEN [exc |-> "IndexError", id |-> 0]
    ELSE IF scopes[1].shape = "wrapped" THEN [exc |-> "", id |-> scopes[1].id]
    ELSE IF scopes[1].shape \in {"flat", "empty"} THEN [exc |-> "KeyError", id |-> 0]
    ELSE [exc |-> "TypeError", id |-> 0]

\* Variant of the lenient read that takes anything without an id for "no id"
LenientScopeIdNeverRaises(scopes) ==
    IF scopes[1].shape \in {"wrapped", "flat"}
    THEN [exc |-> "", id |-> scopes[1].id] ELSE [exc |-> "", id |-> 0]

\* result['scopes'][0].get('scope', result['scopes'][0]).get(scope_id_key):
\* AttributeError when the item, or its "scope", is not an object
LenientScopeId(scopes) ==
    IF scopes[1].shape \in {"wrapped", "flat"} THEN [exc |-> "", id |-> scopes[1].id]
    ELSE IF scopes[1].shape = "empty" THEN [exc |-> "", id |-> 0]
    ELSE [exc |-> "AttributeError", id |-> 0]

-----------------------------------------------------------------------------
(* How a request ends *)

\* The exception k leaves the running operation of kind `kind`.
\* handle_create_project and handle_add_repos catch DevLakeAPIError and tell the
\* user; anything else escapes the handler.
AbortAs(kind, k, m) ==
    LET handled == kind \in {"form", "add"} /\ k = "DevLakeAPIError"
    IN  /\ pc' = "done"
        /\ out' = [status |-> IF handled THEN "handled" ELSE "raised",
                   exc |-> k, result |-> NoResult]
        /\ msgs' = IF handled THEN Append(m, "failure") ELSE m

Abort(k) == AbortAs(req.kind, k, msgs)

-----------------------------------------------------------------------------
(* devlake_api.py: create_multi_platform_project *)

ModelName(p) == IF p = "github" THEN "GithubRepo" ELSE "GitlabProject"

\* f"{plugin}:{Model}:{connection_id}:{native_id}", kept as its ':'-separated segments
ScopeIdOf(p, connection_id, native_id) ==
    <<p, ModelName(p), str(connection_id), str(native_id)>>

\* scopeId.split(':')[-1]
LastSegment(scope_id) == scope_id[Len(scope_id)]

\* Variant of the reuse test that never reuses
never_reuse(existing_configs) == FALSE

\* `if existing_configs and len(existing_configs) > 0`: reuse the first scope-config
reuse_scope_config(existing_configs) == Len(existing_configs) > 0

\* Variant of the entry into a section that always takes connection 1 as given
EnterPlatformReuse(r, l, p) ==
    [pc |-> "m_configs", exc |-> "", loc |-> [l EXCEPT !.plat = p, !.conn[p] = 1]]

\* Entering the section of platform p (its repository list is not empty): a supplied
\* connection id is used as is; without one a token is needed to create a connection
EnterPlatform(r, l, p) ==
    IF r.conn_id[p] # 0
    THEN [pc |-> "m_configs", exc |-> "",
          loc |-> [l EXCEPT !.plat = p, !.conn[p] = r.conn_id[p]]]
    ELSE IF r.token[p] # ""
    THEN [pc |-> "m_conn", exc |-> "", loc |-> [l EXCEPT !.plat = p]]
    ELSE [pc |-> "done", exc |-> "DevLakeAPIError", loc |-> [l EXCEPT !.plat = p]]

EnterGitlab(r, l) ==
    IF r.repos.gitlab # <<>> THEN EnterPlatform(r, l, "gitlab")
    ELSE [pc |-> "m_project", exc |-> "", loc |-> [l EXCEPT !.plat = "-"]]

\* Variant of the entry into the sections that leaves out the GitHub section
EnterSkippingGithub(r, l) ==
    IF r.repos.gitlab # <<>> THEN EnterPlatform(r, l, "gitlab")
    ELSE [pc |-> "m_project", exc |-> "", loc |-> [l EXCEPT !.plat = "-"]]

EnterGithub(r, l) ==
    IF r.repos.github # <<>> THEN EnterPlatform(r, l, "github")
    ELSE EnterGitlab(r, l)

AfterPlatform(r, l, p) ==
    IF p = "github" THEN EnterGitlab(r, l)
    ELSE [pc |-> "m_project", exc |-> "", loc |-> [l EXCEPT !.plat = "-"]]

\* take the step e of the operation of kind `kind`, m being the messages sent so far
Goto(kind, e, m) ==
    /\ loc' = e.loc
    /\ IF e.exc # "" THEN AbortAs(kind, e.exc, m)
       ELSE pc' = e.pc /\ out' = NoOut /\ msgs' = m

\* blueprint_connections: the scopes of scope_configs grouped by platform
PlatformScopes(scope_configs, p) ==
    LET IsP(sc) == sc.plugin = p
        ToScope(sc) == [scopeId |-> LastSegment(sc.scopeId)]
        mine == SelectSeq(scope_configs, IsP)
    IN  [i \in DOMAIN mine |-> ToScope(mine[i])]

BlueprintEntry(scope_configs, conn, p) ==
    IF PlatformScopes(scope_configs, p) # <<>>
    THEN <<[pluginName |-> p, connectionId |-> conn[p],
            scopes |-> PlatformScopes(scope_configs, p)]>>
    ELSE <<>>

blueprint_connections(scope_configs, conn) ==
    BlueprintEntry(scope_configs, conn, "github")
        \o BlueprintEntry(scope_configs, conn, "gitlab")

\* datetime.now(timezone.utc) at the moment the payload is built: a day number and
\* the microseconds of the instant
Clock == {[day |-> 40, micro |-> 0], [day |-> 41, micro |-> 7]}

\* timedelta(days=30)
TimeWindowDays == 30

\* (now - timedelta(days=30)).strftime('%Y-%m-%dT%H:%M:%SZ'): whole seconds only
time_after(now) == [day |-> now.day - TimeWindowDays, micro |-> 0]

\* the payload of POST /api/projects
project_payload(project_name, cron_config, scope_configs, timeAfter) ==
    [name |-> project_name, cronConfig |-> cron_config, connections |-> scope_configs,
     timeAfter |-> timeAfter]

\* Variant of the PATCH payload that always carries the default cron string
patch_payload_daily(project_name, cron_config, scope_configs, conn, timeAfter) ==
    [name |-> project_name, fields |-> {"connections", "timeAfter", "cronConfig",
                                        "skipCollectors", "fullSync"},
     cronConfig |-> "0 0 * * *", timeAfter |-> timeAfter,
     connections |-> blueprint_connections(scope_configs, conn)]

\* the payload of the follow-up PATCH /api/blueprints/{id}
patch_payload(project_name, cron_config, scope_configs, conn, timeAfter) ==
    [name |-> project_name, fields |-> {"connections", "timeAfter", "cronConfig",
                                        "skipCollectors", "fullSync"},
     cronConfig |-> cron_config, timeAfter |-> timeAfter,
     connections |-> blueprint_connections(scope_configs, conn)]

\* the call create_multi_platform_project(...) with arguments from the given sets:
\* the defaults, then the first section that has repositories
CallMulti(Names, GithubLists, GitlabLists, GithubTokens, GitlabTokens, ConnIdChoices) ==
    /\ \E project_name \in Names, github_repos \in GithubLists,
          gitlab_repos \in GitlabLists,
          github_token \in GithubTokens, gitlab_token \in GitlabTokens,
          github_conn_id \in ConnIdChoices, gitlab_conn_id \in ConnIdChoices :
          LET r == [kind |-> "multi", project_name |-> project_name,
                    repos |-> [github |-> github_repos, gitlab |-> gitlab_repos],
                    token |-> [github |-> github_token, gitlab |-> gitlab_token],
                    conn_id |-> [github |-> github_conn_id, gitlab |-> gitlab_conn_id],
                    plugin |-> "", schedule |-> "", cron_config |-> "0 0 * * *"]
          IN  /\ req' = r
              /\ Goto("multi", EnterGithub(r, NoLoc), <<>>)
    /\ ops' = ops + 1
    /\ log' = <<>>
    /\ UNCHANGED <<clientVars, remoteVars, resolverVars, modalVars, parVars, chatVars>>

create_multi_platform_project ==
    /\ pc = "idle"
    /\ CallMulti(ProjectNames, SeqsUpTo(GithubRepos, MaxGithubRepos),
                 SeqsUpTo(GitlabRepos, MaxGitlabRepos),
                 {"", "ghp_x"}, {"", "glpat_x"}, {0, 1})

\* create_connection / create_gitlab_connection for the platform being processed
create_multi_platform_project_connection ==
    /\ pc = "m_conn"
    /\ LET p == loc.plat
           id == NewConnId(p)
       IN  \E raised \in BOOLEAN :
             /\ Logged(Entry("create_connection", p, 0,
                             [name |-> req.project_name \o "-" \o p,
                              token |-> req.token[p]]))
             /\ IF raised
                THEN Abort("DevLakeAPIError") /\ UNCHANGED <<loc, remoteVars>>
                ELSE /\ RemoteCreateConnection(p, id)
                     /\ loc' = [loc EXCEPT !.conn[p] = id]
                     /\ pc' = "m_configs"
                     /\ UNCHANGED <<out, msgs>>
    /\ UNCHANGED <<req, ops, clientVars, resolverVars, modalVars, parVars, chatVars>>

\* get_scope_configs, then reuse the first one or go and create one
create_multi_platform_project_configs ==
    /\ pc = "m_configs"
    /\ LET p == loc.plat
           c == loc.conn[p]
           existing_configs == rConfigs[ConnKey(p, c)]
       IN  \E raised \in BOOLEAN :
             /\ Logged(Entry("get_scope_configs", p, c, existing_configs))
             /\ IF raised
                THEN Abort("DevLakeAPIError") /\ UNCHANGED loc
                ELSE IF reuse_scope_config(existing_configs)
                THEN /\ loc' = [loc EXCEPT !.scope_config_id = existing_configs[1],
                                           !.i = 1]
                     /\ pc' = "m_add"
                     /\ UNCHANGED <<out, msgs>>
                ELSE /\ pc' = "m_create_config"
                     /\ UNCHANGED <<loc, out, msgs>>
    /\ UNCHANGED <<req, ops, clientVars, remoteVars, resolverVars, modalVars, parVars, chatVars>>

\* create_scope_config(connection_id, name=project_name, plugin)
create_multi_platform_project_create_config ==
    /\ pc = "m_create_config"
    /\ LET p == loc.plat
           c == loc.conn[p]
           id == NewConfigId
       IN  \E raised \in BOOLEAN :
             /\ Logged(Entry("create_scope_config", p, c, [name |-> req.project_name]))
             /\ IF raised
                THEN Abort("DevLakeAPIError") /\ UNCHANGED <<loc, remoteVars>>
                ELSE /\ RemoteCreateConfig(p, c, id)
                     /\ loc' = [loc EXCEPT !.scope_config_id = id, !.i = 1]
                     /\ pc' = "m_add"
                     /\ UNCHANGED <<out, msgs>>
    /\ UNCHANGED <<req, ops, clientVars, resolverVars, modalVars, parVars, chatVars>>

\* A turn of `for repo in github_repos` / `for project in gitlab_repos`: add_scope
\* asks the resolver for the repository, and the resolver sends one request
create_multi_platform_project_add ==
    /\ pc = "m_add"
    /\ LET p == loc.plat
           c == loc.conn[p]
           repo == req.repos[p][loc.i]
       IN  \E o \in ResolveAnswers(p, loc.run) :
             LET run == Resolve(p, repo, loc.run, o)
                 search == SearchFor(p, c, repo, run.stage)
                 l0 == [loc EXCEPT !.run = NoSearch]
                 l1 == [l0 EXCEPT !.results =
                           Append(@, [repo |-> repo, scenario |-> <<run.stage, FALSE, "-">>])]
             IN  /\ IF loc.run.stage = "search" THEN Logged(search.call)
                    ELSE UNCHANGED log
                 /\ IF run.stage \notin ResolverOutcomes
                    THEN loc' = [loc EXCEPT !.run = run] /\ UNCHANGED <<pc, out, msgs>>
                    ELSE IF search.raised
                    THEN Abort("DevLakeAPIError") /\ loc' = l1
                    ELSE loc' = l0 /\ pc' = "m_put" /\ UNCHANGED <<out, msgs>>
    /\ UNCHANGED <<req, ops, clientVars, remoteVars, resolverVars, modalVars, parVars, chatVars>>

\* The turn ends: add_scope sends the PUT, and the loop reads the id of the scope
\* from its answer
create_multi_platform_project_put ==
    /\ pc = "m_put"
    /\ LET p == loc.plat
           c == loc.conn[p]
           repo == req.repos[p][loc.i]
       IN  \E sc \in PutScenarios :
             LET scope == AddScopeOf(p, c, repo, loc.scope_config_id, sc)
                 sid == StrictScopeId(scope.scopes)
                 l1 == [loc EXCEPT !.results = Append(@, [repo |-> repo, scenario |-> sc])]
                 l2 == [l1 EXCEPT !.scope_configs = Append(@,
                                        [plugin |-> p, connectionId |-> c,
                                         scopeId |-> ScopeIdOf(p, c, sid.id)]),
                                  !.i = @ + 1]
             IN  /\ Logged(scope.calls[2])
                 /\ IF scope.raised
                    THEN Abort("DevLakeAPIError") /\ loc' = l1
                    ELSE IF sid.exc # ""
                    THEN Abort(sid.exc) /\ loc' = l1
                    ELSE IF loc.i < Len(req.repos[p])
                    THEN loc' = l2 /\ pc' = "m_add" /\ UNCHANGED <<out, msgs>>
                    ELSE Goto(req.kind, AfterPlatform(req, l2, p), msgs)
    /\ UNCHANGED <<req, ops, clientVars, remoteVars, resolverVars, modalVars, parVars, chatVars>>

\* time_after, then POST /api/projects with every scope added so far embedded in
\* the blueprint
create_multi_platform_project_project ==
    /\ pc = "m_project"
    /\ \E raised \in BOOLEAN, now \in Clock :
         /\ Logged(Entry("create_project", "", 0,
                project_payload(req.project_name, req.cron_config, loc.scope_configs,
                                time_after(now))))
         /\ IF raised
            THEN /\ Abort("DevLakeAPIError")
                 /\ loc' = [loc EXCEPT !.time_after = time_after(now)]
                 /\ UNCHANGED remoteVars
            ELSE /\ RemoteCreateProject(req.project_name, req.cron_config)
                 /\ loc' = [loc EXCEPT !.blueprint_id = BlueprintId(req.project_name),
                                       !.time_after = time_after(now)]
                 /\ pc' = "m_patch"
                 /\ UNCHANGED <<out, msgs>>
    /\ UNCHANGED <<req, ops, clientVars, resolverVars, modalVars, parVars, chatVars>>

\* PATCH /api/blueprints/{id}: the same scopes again, in the blueprint's own format
create_multi_platform_project_patch ==
    /\ pc = "m_patch"
    /\ \E raised \in BOOLEAN :
         LET payload == patch_payload(req.project_name, req.cron_config,
                                      loc.scope_configs, loc.conn, loc.time_after)
         IN  /\ Logged(Entry("patch_blueprint", "", 0, payload))
             /\ IF raised
                THEN Abort("DevLakeAPIError") /\ UNCHANGED <<loc, remoteVars>>
                ELSE /\ rProjects' = [rProjects EXCEPT ![req.project_name] =
                            [@ EXCEPT !.connections = payload.connections,
                                      !.cron = payload.cronConfig]]
                     /\ pc' = "m_trigger"
                     /\ UNCHANGED <<loc, out, msgs, rConfigs, rPipelines, createdSC>>
    /\ UNCHANGED <<req, ops, clientVars, resolverVars, modalVars, parVars, chatVars>>

\* the dict create_multi_platform_project returns
multi_result(project_name, blueprint_id, pipeline_id) ==
    [success |-> TRUE, project |-> project_name, blueprint_id |-> blueprint_id,
     pipeline_id |-> pipeline_id, dashboard_url |-> BaseUrl]

\* trigger_blueprint, then the result; handle_create_project goes on to post the
\* success message and the channel announcement
create_multi_platform_project_trigger ==
    /\ pc = "m_trigger"
    /\ \E raised \in BOOLEAN :
         /\ Logged(Entry("trigger_blueprint", "", 0, [name |-> req.project_name]))
         /\ IF raised
            THEN Abort("DevLakeAPIError") /\ UNCHANGED remoteVars
            ELSE /\ rPipelines' = rPipelines + 1
                 /\ pc' = "done"
                 /\ out' = [status |-> "returned", exc |-> "",
                            result |-> multi_result(req.project_name, loc.blueprint_id,
                                                    rPipelines + 1)]
                 /\ msgs' = IF req.kind = "form"
                            THEN msgs \o <<"success", "announce">> ELSE msgs
                 /\ UNCHANGED <<rConfigs, rProjects, createdSC>>
    /\ UNCHANGED <<req, loc, ops, clientVars, resolverVars, modalVars, parVars, chatVars>>

-----------------------------------------------------------------------------
(* slack_bot.py: handle_create_project *)

\* Variant of the lookup that falls back to the daily schedule for an unknown key
cron_lookup_default(schedule) ==
    [exc |-> "",
     value |-> IF schedule \in DOMAIN CRON_SCHEDULES THEN CRON_SCHEDULES[schedule]
               ELSE "0 0 * * *"]

\* CRON_SCHEDULES[schedule]: a KeyError for a key the table does not hold
cron_lookup(schedule) ==
    IF schedule \in DOMAIN CRON_SCHEDULES
    THEN [exc |-> "", value |-> CRON_SCHEDULES[schedule]]
    ELSE [exc |-> "KeyError", value |-> ""]

\* the fields the validation marks as wrong
\* Variant of the validation that only asks for a repository
validation_errors_repos_only(github_repos, github_token, gitlab_repos, gitlab_token) ==
    IF github_repos = <<>> /\ gitlab_repos = <<>>
    THEN {"github_repos_block", "gitlab_repos_block"} ELSE {}

validation_errors(github_repos, github_token, gitlab_repos, gitlab_token) ==
    (IF github_repos = <<>> /\ gitlab_repos = <<>>
     THEN {"github_repos_block", "gitlab_repos_block"} ELSE {})
    \cup (IF github_repos # <<>> /\ github_token = "" THEN {"github_token_block"} ELSE {})
    \cup (IF gitlab_repos # <<>> /\ gitlab_token = "" THEN {"gitlab_token_block"} ELSE {})

\* The submission of the create form with values from the given sets: validation,
\* ack, the "working on it" message, the cron string of the schedule, then the call
\* of create_multi_platform_project
SubmitCreate(Names, GithubLists, GitlabLists, GithubTokens, GitlabTokens, Schedules) ==
    /\ \E project_name \in Names, github_repos \in GithubLists,
          gitlab_repos \in GitlabLists,
          github_token \in GithubTokens, gitlab_token \in GitlabTokens,
          schedule \in Schedules :
          LET errors == validation_errors(github_repos, github_token,
                                          gitlab_repos, gitlab_token)
              cron == cron_lookup(schedule)
              r == [kind |-> "form", project_name |-> project_name,
                    repos |-> [github |-> github_repos, gitlab |-> gitlab_repos],
                    token |-> [github |-> github_token, gitlab |-> gitlab_token],
                    conn_id |-> [github |-> 0, gitlab |-> 0],
                    plugin |-> "", schedule |-> schedule, cron_config |-> cron.value]
          IN  /\ req' = r
              /\ IF errors # {}
                 THEN /\ msgs' = <<"ack_errors">>
                      /\ out' = [status |-> "rejected", exc |-> "", result |-> NoResult]
                      /\ pc' = "done"
                      /\ loc' = NoLoc
                 ELSE IF cron.exc # ""
                 THEN /\ AbortAs("form", cron.exc, <<"ack", "working">>)
                      /\ loc' = NoLoc
                 ELSE Goto("form", EnterGithub(r, NoLoc), <<"ack", "working">>)
    /\ ops' = ops + 1
    /\ log' = <<>>
    /\ UNCHANGED <<clientVars, remoteVars, resolverVars, modalVars, parVars, chatVars>>

handle_create_project ==
    /\ pc = "idle"
    /\ SubmitCreate(ProjectNames, SeqsUpTo(GithubRepos, MaxGithubRepos),
                    SeqsUpTo(GitlabRepos, MaxGitlabRepos),
                    {"", "ghp_x"}, {"", "glpat_x"}, ScheduleKeys)

-----------------------------------------------------------------------------
(* devlake_api.py: create_full_project *)

\* the payload of create_project: one GitHub repository in the blueprint's plan
create_project(project_name, connection_id, github_id, cron_config) ==
    [name |-> project_name, cronConfig |-> cron_config,
     plan |-> <<[plugin |-> "github", connectionId |-> connection_id,
                 githubId |-> github_id]>>]

CallFull(Names, Repos, Tokens) ==
    /\ \E project_name \in Names, repo_full_name \in Repos, github_token \in Tokens :
          req' = [NoReq EXCEPT !.kind = "full", !.project_name = project_name,
                               !.repos.github = <<repo_full_name>>,
                               !.token.github = github_token,
                               !.cron_config = "0 0 * * *"]
    /\ pc' = "f_conn"
    /\ loc' = [NoLoc EXCEPT !.plat = "github"]
    /\ out' = NoOut
    /\ msgs' = <<>>
    /\ ops' = ops + 1
    /\ log' = <<>>
    /\ UNCHANGED <<clientVars, remoteVars, resolverVars, modalVars, parVars, chatVars>>

create_full_project ==
    /\ pc = "idle"
    /\ CallFull(ProjectNames, GithubRepos, {"", "ghp_x"})

\* Step 1: create_connection
create_full_project_connection ==
    /\ pc = "f_conn"
    /\ LET id == NewConnId("github")
       IN  \E raised \in BOOLEAN :
             /\ Logged(Entry("create_connection", "github", 0,
                             [name |-> req.project_name \o "-connection",
                              token |-> req.token.github]))
             /\ IF raised
                THEN Abort("DevLakeAPIError") /\ UNCHANGED <<loc, remoteVars>>
                ELSE /\ RemoteCreateConnection("github", id)
                     /\ loc' = [loc EXCEPT !.conn.github = id]
                     /\ pc' = "f_config"
                     /\ UNCHANGED <<out, msgs>>
    /\ UNCHANGED <<req, ops, clientVars, resolverVars, modalVars, parVars, chatVars>>

\* Step 2: create_scope_config, without looking for an existing one
create_full_project_scope_config ==
    /\ pc = "f_config"
    /\ LET c == loc.conn.github
           id == NewConfigId
       IN  \E raised \in BOOLEAN :
             /\ Logged(Entry("create_scope_config", "github", c,
                             [name |-> req.project_name]))
             /\ IF raised
                THEN Abort("DevLakeAPIError") /\ UNCHANGED <<loc, remoteVars>>
                ELSE /\ RemoteCreateConfig("github", c, id)
                     /\ loc' = [loc EXCEPT !.scope_config_id = id, !.i = 1]
                     /\ pc' = "f_add"
                     /\ UNCHANGED <<out, msgs>>
    /\ UNCHANGED <<req, ops, clientVars, resolverVars, modalVars, parVars, chatVars>>

\* Step 3: add_scope asks the resolver for the repository, and the resolver sends
\* one request
create_full_project_add_scope ==
    /\ pc = "f_add"
    /\ LET c == loc.conn.github
           repo == req.repos.github[1]
       IN  \E o \in ResolveAnswers("github", loc.run) :
             LET run == Resolve("github", repo, loc.run, o)
                 search == SearchFor("github", c, repo, run.stage)
                 l0 == [loc EXCEPT !.run = NoSearch]
                 l1 == [l0 EXCEPT !.results =
                           Append(@, [repo |-> repo, scenario |-> <<run.stage, FALSE, "-">>])]
             IN  /\ IF loc.run.stage = "search" THEN Logged(search.call)
                    ELSE UNCHANGED log
                 /\ IF run.stage \notin ResolverOutcomes
                    THEN loc' = [loc EXCEPT !.run = run] /\ UNCHANGED <<pc, out, msgs>>
                    ELSE IF search.raised
                    THEN Abort("DevLakeAPIError") /\ loc' = l1
                    ELSE loc' = l0 /\ pc' = "f_put" /\ UNCHANGED <<out, msgs>>
    /\ UNCHANGED <<req, ops, clientVars, remoteVars, resolverVars, modalVars, parVars, chatVars>>

\* Step 3 ends: add_scope sends the PUT, and the id of the scope added is read
create_full_project_put ==
    /\ pc = "f_put"
    /\ LET c == loc.conn.github
           repo == req.repos.github[1]
       IN  \E sc \in PutScenarios :
             LET scope == add_scope(c, repo, loc.scope_config_id, sc)
                 sid == StrictScopeId(scope.scopes)
                 l1 == [loc EXCEPT !.results = Append(@, [repo |-> repo, scenario |-> sc])]
             IN  /\ Logged(scope.calls[2])
                 /\ IF scope.raised
                    THEN Abort("DevLakeAPIError") /\ loc' = l1
                    ELSE IF sid.exc # ""
                    THEN Abort(sid.exc) /\ loc' = l1
                    ELSE /\ loc' = [l1 EXCEPT !.github_id = sid.id]
                         /\ pc' = "f_project"
                         /\ UNCHANGED <<out, msgs>>
    /\ UNCHANGED <<req, ops, clientVars, remoteVars, resolverVars, modalVars, parVars, chatVars>>

\* Step 4: create_project
create_full_project_project ==
    /\ pc = "f_project"
    /\ \E raised \in BOOLEAN :
         /\ Logged(Entry("create_project", "", 0,
                create_project(req.project_name, loc.conn.github, loc.github_id,
                               req.cron_config)))
         /\ IF raised
            THEN Abort("DevLakeAPIError") /\ UNCHANGED <<loc, remoteVars>>
            ELSE /\ RemoteCreateProject(req.project_name, req.cron_config)
                 /\ loc' = [loc EXCEPT !.blueprint_id = BlueprintId(req.project_name)]
                 /\ pc' = "f_trigger"
                 /\ UNCHANGED <<out, msgs>>
    /\ UNCHANGED <<req, ops, clientVars, resolverVars, modalVars, parVars, chatVars>>

\* the dict create_full_project returns
full_result(project_name, conn_id, blueprint_id, pipeline_id) ==
    [success |-> TRUE, project |-> project_name, connection_id |-> conn_id,
     blueprint_id |-> blueprint_id, pipeline_id |-> pipeline_id,
     dashboard_url |-> BaseUrl]

\* Step 5: trigger_blueprint, then the result
create_full_project_trigger ==
    /\ pc = "f_trigger"
    /\ \E raised \in BOOLEAN :
         /\ Logged(Entry("trigger_blueprint", "", 0, [name |-> req.project_name]))
         /\ IF raised
            THEN Abort("DevLakeAPIError") /\ UNCHANGED remoteVars
            ELSE /\ rPipelines' = rPipelines + 1
                 /\ pc' = "done"
                 /\ out' = [status |-> "returned", exc |-> "",
                            result |-> full_result(req.project_name, loc.conn.github,
                                                   loc.blueprint_id, rPipelines + 1)]
                 /\ UNCHANGED <<msgs, rConfigs, rProjects, createdSC>>
    /\ UNCHANGED <<req, loc, ops, clientVars, resolverVars, modalVars, parVars, chatVars>>

-----------------------------------------------------------------------------
(* devlake_api.py: link_scopes_to_project *)

\* Variant of the link that replaces the blueprint's connections by the new scopes
replace_scopes(connections, plugin, connection_id, scope_ids) ==
    <<[pluginName |-> plugin, connectionId |-> connection_id,
       scopes |-> [i \in DOMAIN scope_ids |-> [scopeId |-> scope_ids[i]]]]>>

\* position of the first entry of the blueprint for this connection, 0 if none
FindConnection(connections, plugin, connection_id) ==
    LET hits == {i \in 1..Len(connections) :
                    /\ connections[i].pluginName = plugin
                    /\ connections[i].connectionId = connection_id}
    IN  IF hits = {} THEN 0 ELSE CHOOSE i \in hits : \A j \in hits : i <= j

\* Variant of the link that appends a new entry without looking for an existing one
append_scopes(connections, plugin, connection_id, scope_ids) ==
    Append(connections,
           [pluginName |-> plugin, connectionId |-> connection_id,
            scopes |-> [i \in DOMAIN scope_ids |-> [scopeId |-> scope_ids[i]]]])

ToScopeEntry(sid) == [scopeId |-> sid]

\* The connections sent back to the blueprint: scope ids the entry does not hold yet
\* are appended to it (the ids it holds are read once, before the loop); without an
\* entry for the connection a new one is appended
link_scopes_to_project(connections, plugin, connection_id, scope_ids) ==
    LET idx == FindConnection(connections, plugin, connection_id)
    IN  IF idx = 0
        THEN Append(connections,
                    [pluginName |-> plugin, connectionId |-> connection_id,
                     scopes |-> [i \in DOMAIN scope_ids |-> ToScopeEntry(scope_ids[i])]])
        ELSE LET existing_scope_ids == {s.scopeId : s \in Range(connections[idx].scopes)}
                 IsNew(sid) == sid \notin existing_scope_ids
                 new_ids == SelectSeq(scope_ids, IsNew)
             IN  [connections EXCEPT ![idx].scopes =
                     @ \o [i \in DOMAIN new_ids |-> ToScopeEntry(new_ids[i])]]

-----------------------------------------------------------------------------
(* slack_bot.py: handle_add_repos *)

\* name under which the remote holds a connection
ConnectionName(p, id) == p \o "-conn-" \o str(id)

\* One entry of the answer of get_connections: c.get('id'), and c.get('name') when
\* the entry has one
Connection(p, id, has_name) ==
    [id |-> id, has_name |-> has_name,
     name |-> IF has_name THEN ConnectionName(p, id) ELSE ""]

\* What get_connections can answer for platform p when connection id is asked for:
\* a list that holds it (named or not, first or not), a list without it, an object
Listings(p, id) ==
    {[is_list |-> TRUE, entries |-> <<Connection(p, id, TRUE)>>],
     [is_list |-> TRUE, entries |-> <<Connection(p, id + 1, TRUE), Connection(p, id, TRUE)>>],
     [is_list |-> TRUE, entries |-> <<Connection(p, id, FALSE)>>],
     [is_list |-> TRUE, entries |-> <<Connection(p, id + 1, TRUE)>>],
     [is_list |-> TRUE, entries |-> <<>>],
     [is_list |-> FALSE, entries |-> <<>>]}

\* Variant of the naming that takes the first entry of the list, whatever its id
conn_name_first(connections, conn_id) ==
    IF connections.is_list /\ connections.entries # <<>>
    THEN IF connections.entries[1].has_name
         THEN connections.entries[1].name
         ELSE "connection-" \o str(conn_id)
    ELSE "connection"

\* conn_name = "connection"; if the answer is a list, the first entry whose id is
\* conn_id gives c.get('name', f'connection-{conn_id}')
conn_name(connections, conn_id) ==
    LET Hit(c) == c.id = conn_id
        hits == IF connections.is_list THEN SelectSeq(connections.entries, Hit) ELSE <<>>
    IN  IF hits = <<>> THEN "connection"
        ELSE IF hits[1].has_name THEN hits[1].name
        ELSE "connection-" \o str(conn_id)

\* Variant of the classification that takes an empty scopes list for an error
AddOutcomeAsError(raised, scopes) ==
    IF raised \/ scopes = <<>> THEN "error" ELSE "added"

\* What the loop makes of one add: an exception is an error, an empty scopes list is
\* "not found or no access", anything else is added
AddOutcome(raised, scopes) ==
    IF raised THEN "error"
    ELSE IF scopes = <<>> THEN "not found or no access"
    ELSE "added"

\* the result message: what was added, what failed, or that nothing was processed
ResultMessage(added_repos, failed_repos) ==
    IF added_repos # <<>> /\ failed_repos # <<>> THEN "added_and_failed"
    ELSE IF added_repos # <<>> THEN "added"
    ELSE IF failed_repos # <<>> THEN "failed"
    ELSE "none_processed"

\* the end of handle_add_repos: the result message
AddFinish(l) ==
    /\ loc' = l
    /\ pc' = "done"
    /\ out' = [status |-> "returned", exc |-> "", result |-> NoResult]
    /\ msgs' = Append(msgs, ResultMessage(l.added_repos, l.failed_repos))

\* Variant of the step after the loop that links whatever the loop produced
AfterAddLoopAlwaysLink(l) ==
    loc' = l /\ pc' = "a_link_project" /\ UNCHANGED <<out, msgs>>

\* after the loop: link the scopes added, if any, else finish
AfterAddLoop(l) ==
    IF l.added_scope_ids # <<>>
    THEN loc' = l /\ pc' = "a_link_project" /\ UNCHANGED <<out, msgs>>
    ELSE AddFinish(l)

\* into the loop over the repositories, or past it when there are none
BeforeAddLoop(l) ==
    IF req.repos[req.plugin] # <<>>
    THEN loc' = [l EXCEPT !.i = 1] /\ pc' = "a_add" /\ UNCHANGED <<out, msgs>>
    ELSE AfterAddLoop(l)

\* the submission of the add-repos form with values from the given sets
SubmitAdd(Names, Connections, Lists) ==
    /\ \E project_name \in Names, k \in Connections :
         \E repos \in Lists[k[1]] :
            req' = [NoReq EXCEPT !.kind = "add", !.project_name = project_name,
                                 !.plugin = k[1], !.conn_id[k[1]] = k[2],
                                 !.repos[k[1]] = repos]
    /\ pc' = "a_connections"
    /\ loc' = NoLoc
    /\ out' = NoOut
    /\ msgs' = <<"ack", "working">>
    /\ ops' = ops + 1
    /\ log' = <<>>
    /\ UNCHANGED <<clientVars, remoteVars, resolverVars, modalVars, parVars, chatVars>>

\* the projects and connections the form offers are those the remote holds
ExistingProjects == {n \in ProjectNames : rProjects[n].exists}

handle_add_repos ==
    /\ pc = "idle"
    /\ SubmitAdd(ExistingProjects, DOMAIN rConfigs,
                 [p \in Plugins |-> SeqsUpTo(ReposOf(p), MaxGithubRepos)])

\* get_connections, for the name of the connection
handle_add_repos_connections ==
    /\ pc = "a_connections"
    /\ LET p == req.plugin
           c == req.conn_id[p]
       IN  \E raised \in BOOLEAN, connections \in Listings(p, c) :
             /\ Logged(Entry("get_connections", p, 0, connections))
             /\ IF raised
                THEN Abort("DevLakeAPIError") /\ UNCHANGED loc
                ELSE /\ loc' = [loc EXCEPT !.plat = p, !.conn[p] = c,
                                           !.conn_name = conn_name(connections, c)]
                     /\ pc' = "a_configs"
                     /\ UNCHANGED <<out, msgs>>
    /\ UNCHANGED <<req, ops, clientVars, remoteVars, resolverVars, modalVars, parVars, chatVars>>

\* get_scope_configs, then reuse the first one or go and create one
handle_add_repos_configs ==
    /\ pc = "a_configs"
    /\ LET p == req.plugin
           c == req.conn_id[p]
           existing_configs == rConfigs[ConnKey(p, c)]
       IN  \E raised \in BOOLEAN :
             /\ Logged(Entry("get_scope_configs", p, c, existing_configs))
             /\ IF raised
                THEN Abort("DevLakeAPIError") /\ UNCHANGED loc
                ELSE IF reuse_scope_config(existing_configs)
                THEN BeforeAddLoop([loc EXCEPT !.scope_config_id = existing_configs[1]])
                ELSE /\ pc' = "a_create_config"
                     /\ UNCHANGED <<loc, out, msgs>>
    /\ UNCHANGED <<req, ops, clientVars, remoteVars, resolverVars, modalVars, parVars, chatVars>>

\* create_scope_config(connection_id, name=conn_name, plugin)
handle_add_repos_create_config ==
    /\ pc = "a_create_config"
    /\ LET p == req.plugin
           c == req.conn_id[p]
           id == NewConfigId
       IN  \E raised \in BOOLEAN :
             /\ Logged(Entry("create_scope_config", p, c, [name |-> loc.conn_name]))
             /\ IF raised
                THEN Abort("DevLakeAPIError") /\ UNCHANGED <<loc, remoteVars>>
                ELSE /\ RemoteCreateConfig(p, c, id)
                     /\ BeforeAddLoop([loc EXCEPT !.scope_config_id = id])
    /\ UNCHANGED <<req, ops, clientVars, resolverVars, modalVars, parVars, chatVars>>

\* A turn of `for repo in repos`: add_scope asks the resolver for the repository,
\* and the resolver sends one request; the resolver's exception is caught and the
\* repository counted as failed
handle_add_repos_add ==
    /\ pc = "a_add"
    /\ LET p == req.plugin
           c == req.conn_id[p]
           repo == req.repos[p][loc.i]
       IN  \E o \in ResolveAnswers(p, loc.run) :
             LET run == Resolve(p, repo, loc.run, o)
                 search == SearchFor(p, c, repo, run.stage)
                 l0 == [loc EXCEPT !.run = NoSearch]
                 l1 == [l0 EXCEPT !.results =
                           Append(@, [repo |-> repo, scenario |-> <<run.stage, FALSE, "-">>]),
                                  !.i = @ + 1,
                                  !.failed_repos =
                                     Append(@, [repo |-> repo, why |-> "error"])]
             IN  /\ IF loc.run.stage = "search" THEN Logged(search.call)
                    ELSE UNCHANGED log
                 /\ IF run.stage \notin ResolverOutcomes
                    THEN loc' = [loc EXCEPT !.run = run] /\ UNCHANGED <<pc, out, msgs>>
                    ELSE IF ~search.raised
                    THEN loc' = l0 /\ pc' = "a_put" /\ UNCHANGED <<out, msgs>>
                    ELSE IF loc.i < Len(req.repos[p])
                    THEN loc' = l1 /\ pc' = "a_add" /\ UNCHANGED <<out, msgs>>
                    ELSE AfterAddLoop(l1)
    /\ UNCHANGED <<req, ops, clientVars, remoteVars, resolverVars, modalVars, parVars, chatVars>>

\* The turn ends: add_scope sends the PUT. An exception is caught and the repository
\* counted as failed; so is an empty scopes list; anything else is appended to
\* added_repos, and its scope id, when there is one, is kept for the link. An
\* exception of the read of the scope id is caught like any other: the repository,
\* already appended to added_repos, is appended to failed_repos as well
handle_add_repos_put ==
    /\ pc = "a_put"
    /\ LET p == req.plugin
           c == req.conn_id[p]
           repo == req.repos[p][loc.i]
       IN  \E sc \in PutScenarios :
             LET result == AddScopeOf(p, c, repo, loc.scope_config_id, sc)
                 scope_id == LenientScopeId(result.scopes)
                 l0 == [loc EXCEPT !.results = Append(@, [repo |-> repo, scenario |-> sc]),
                                   !.i = @ + 1]
                 outcome == AddOutcome(result.raised, result.scopes)
                 l1 == IF outcome # "added"
                       THEN [l0 EXCEPT !.failed_repos =
                                Append(@, [repo |-> repo, why |-> outcome])]
                       ELSE IF scope_id.exc # ""
                       THEN [l0 EXCEPT !.added_repos = Append(@, repo),
                                       !.failed_repos =
                                          Append(@, [repo |-> repo, why |-> "error"])]
                       ELSE [l0 EXCEPT !.added_repos = Append(@, repo),
                                       !.added_scope_ids =
                                          IF scope_id.id # 0
                                          THEN Append(@, str(scope_id.id)) ELSE @]
             IN  /\ Logged(result.calls[2])
                 /\ IF loc.i < Len(req.repos[p])
                    THEN loc' = l1 /\ pc' = "a_add" /\ UNCHANGED <<out, msgs>>
                    ELSE AfterAddLoop(l1)
    /\ UNCHANGED <<req, ops, clientVars, remoteVars, resolverVars, modalVars, parVars, chatVars>>

\* link_scopes_to_project raised: the handler logs it and goes on to the message
LinkFailed(k) == AddFinish([loc EXCEPT !.link_error = k])

\* link_scopes_to_project: GET /api/projects/{name} for the id of the blueprint
handle_add_repos_link_project ==
    /\ pc = "a_link_project"
    /\ \E raised \in BOOLEAN :
         /\ Logged(Entry("get_project", "", 0, [name |-> req.project_name]))
         /\ IF raised \/ ~rProjects[req.project_name].exists
            THEN LinkFailed("DevLakeAPIError")
            ELSE /\ loc' = [loc EXCEPT !.blueprint_id = BlueprintId(req.project_name)]
                 /\ pc' = "a_link_blueprint"
                 /\ UNCHANGED <<out, msgs>>
    /\ UNCHANGED <<req, ops, clientVars, remoteVars, resolverVars, modalVars, parVars, chatVars>>

\* link_scopes_to_project: GET /api/blueprints/{id} for its connections
handle_add_repos_link_blueprint ==
    /\ pc = "a_link_blueprint"
    /\ \E raised \in BOOLEAN :
         /\ Logged(Entry("get_blueprint", "", 0, [name |-> req.project_name]))
         /\ IF raised
            THEN LinkFailed("DevLakeAPIError")
            ELSE /\ loc' = [loc EXCEPT !.connections =
                               rProjects[req.project_name].connections]
                 /\ pc' = "a_link_patch"
                 /\ UNCHANGED <<out, msgs>>
    /\ UNCHANGED <<req, ops, clientVars, remoteVars, resolverVars, modalVars, parVars, chatVars>>

\* link_scopes_to_project: PATCH /api/blueprints/{id} with the merged connections
handle_add_repos_link_patch ==
    /\ pc = "a_link_patch"
    /\ LET p == req.plugin
           connections == link_scopes_to_project(loc.connections, p, req.conn_id[p],
                                                 loc.added_scope_ids)
       IN  \E raised \in BOOLEAN :
             /\ Logged(Entry("patch_blueprint", p, req.conn_id[p],
                             [name |-> req.project_name, fields |-> {"connections"},
                              cronConfig |-> "", connections |-> connections]))
             /\ IF raised
                THEN LinkFailed("DevLakeAPIError") /\ UNCHANGED remoteVars
                ELSE /\ rProjects' = [rProjects EXCEPT
                            ![req.project_name].connections = connections]
                     /\ AddFinish(loc)
                     /\ UNCHANGED <<rConfigs, rPipelines, createdSC>>
    /\ UNCHANGED <<req, ops, clientVars, resolverVars, modalVars, parVars, chatVars>>

-----------------------------------------------------------------------------
(* devlake_api.py: the repository resolver *)

\* Repository strings are sequences of characters here, so that the split is computed
Chars(a, b) == <<a, "/", b>>
ResolveNames ==
    {Chars("o", "r"), <<"o">>, <<"o", "/", "r", "/", "x">>, <<"/", "r">>, <<"o", "/">>,
     Chars("p", "r")}

\* s.split(sep)
RECURSIVE split(_, _)
split(s, sep) ==
    IF s = <<>> THEN << <<>> >>
    ELSE LET rest == split(Tail(s), sep)
         IN  IF Head(s) = sep THEN << <<>> >> \o rest
             ELSE << <<Head(s)>> \o rest[1] >> \o Tail(rest)

\* d.get(k, default) for a dict d
Get(d, k, default) == IF k \in DOMAIN d THEN d[k] ELSE default

IdKey(plugin) == IF plugin = "github" THEN "githubId" ELSE "gitlabId"

\* a child of a remote-scopes answer: a group, or a scope with or without 'data'
Group(name, id) == [type |-> "group", name |-> name, fullName |-> name, id |-> id]
Scope(full_name) == [type |-> "scope", name |-> <<>>, fullName |-> full_name, id |-> 0]
ScopeWith(full_name, data) ==
    [type |-> "scope", name |-> <<>>, fullName |-> full_name, id |-> 0, data |-> data]

\* the metadata a scope can carry: with the native id, with the id null, without it
Metadata(plugin) ==
    {[n \in {IdKey(plugin), "name"} |-> IF n = "name" THEN 1 ELSE 7],
     [n \in {IdKey(plugin), "name"} |-> IF n = "name" THEN 1 ELSE 0],
     [n \in {"name"} |-> 1]}

\* what the remote answers to the search for an owner or group
SearchAnswers ==
    {[raised |-> TRUE, children |-> <<>>]}
    \cup {[raised |-> FALSE, children |-> c] :
            c \in {<<>>, <<Group(<<"o">>, 5)>>, <<Group(<<"o">>, 0)>>,
                   <<Group(<<"q">>, 6), Group(<<"o">>, 5)>>,
                   <<[Group(<<"o">>, 5) EXCEPT !.type = "scope"]>>}}

\* what the remote answers to the request for one page of an owner's repositories
PageAnswers(plugin) ==
    {[raised |-> TRUE, children |-> <<>>, nextPageToken |-> ""]}
    \cup {[raised |-> FALSE, children |-> <<ScopeWith(Chars("o", "q"), d)>>,
           nextPageToken |-> t] :
            d \in {[n \in {IdKey(plugin), "name"} |-> 8]}, t \in {"", "t2"}}
    \cup {[raised |-> FALSE,
           children |-> <<Group(Chars("o", "r"), 4), ScopeWith(Chars("o", "r"), d)>>,
           nextPageToken |-> "t2"] : d \in Metadata(plugin)}
    \cup {[raised |-> FALSE, children |-> <<Scope(Chars("o", "r"))>>,
           nextPageToken |-> ""]}

\* what api.github.com answers to GET /repos/{owner}/{repo}
PublicAnswers ==
    {[raised |-> TRUE, status |-> 0, id |-> 0], [raised |-> FALSE, status |-> 404, id |-> 0],
     [raised |-> FALSE, status |-> 500, id |-> 0], [raised |-> FALSE, status |-> 200, id |-> 9]}

NoPublicAnswer == [raised |-> FALSE, status |-> 0, id |-> 0]

\* A resolver run: where it is, its arguments and locals, the requests it has made,
\* the answers it has had (children of the owner search, the pages, the public API's
\* answer) and how it ended
NoRun ==
    [pc |-> "idle", plugin |-> "", name |-> <<>>, owner_id |-> 0, page |-> 0,
     calls |-> <<>>, search |-> <<>>, pages |-> <<>>, public |-> NoPublicAnswer,
     outcome |-> "none", error |-> "", data |-> <<>>]

\* Variant of the owner match that accepts a child of any type
OwnerIdAnyType(children, owner_name) ==
    LET hits == {i \in 1..Len(children) : children[i].name = owner_name}
    IN  IF hits = {} THEN 0
        ELSE children[CHOOSE i \in hits : \A j \in hits : i <= j].id

\* the id of the first child that is a group with the name looked for, 0 if none
OwnerId(children, owner_name) ==
    LET hits == {i \in 1..Len(children) :
                    children[i].name = owner_name /\ children[i].type = "group"}
    IN  IF hits = {} THEN 0
        ELSE children[CHOOSE i \in hits : \A j \in hits : i <= j].id

\* positions of the children that are the scope looked for
ScopeHits(children, full_name) ==
    {i \in 1..Len(children) :
        children[i].type = "scope" /\ children[i].fullName = full_name}

\* child.get('data', {}) of the first such child
FirstData(children, full_name) ==
    LET hits == ScopeHits(children, full_name)
    IN  Get(children[CHOOSE i \in hits : \A j \in hits : i <= j], "data", <<>>)

\* a DevLakeAPIError leaves the resolver, e being the start of its message
RaisedWith(r, e) == [r EXCEPT !.pc = "done", !.outcome = "raised", !.error = e]

\* the DevLakeAPIError of _make_request
Raised(r) == RaisedWith(r, "API request failed")
Returned(r, data) == [r EXCEPT !.pc = "done", !.outcome = "returned", !.data = data]

InvalidPath(plugin) ==
    IF plugin = "github" THEN "Invalid repo path" ELSE "Invalid project path"

\* Variant in which a missing GitLab group sends the resolver to the public API too
NoOwnerFallback(plugin, r1) == [r1 EXCEPT !.pc = "fallback"]

\* `if not owner_id` / `if not group_id`: GitHub goes to the public API, GitLab fails
NoOwner(plugin, r1) ==
    IF plugin = "github" THEN [r1 EXCEPT !.pc = "fallback"]
    ELSE RaisedWith(r1, "Group not found")

\* The start of a resolver run: the split, and for a name of two parts the search
\* for the owner (GitHub) or group (GitLab)
ResolveStart(plugin, name, a) ==
    LET parts == split(name, "/")
        r0 == [NoRun EXCEPT !.plugin = plugin, !.name = name]
        r1 == [r0 EXCEPT !.calls = <<SearchCall(plugin, parts[1], 0, 1, SearchPageSize)>>,
                         !.search = IF a.raised THEN <<>> ELSE a.children]
        owner_id == OwnerId(a.children, parts[1])
    IN  IF Len(parts) # 2 THEN RaisedWith(r0, InvalidPath(plugin))
        ELSE IF a.raised THEN Raised(r1)
        ELSE IF owner_id = 0 THEN NoOwner(plugin, r1)
        ELSE [r1 EXCEPT !.pc = "page", !.owner_id = owner_id, !.page = 1]

search_github_repo ==
    /\ rs.pc \in {"idle", "done"}
    /\ \E name \in ResolveNames, a \in SearchAnswers :
          rs' = ResolveStart("github", name, a)
    /\ UNCHANGED <<clientVars, remoteVars, requestVars, modalVars, parVars, chatVars>>

\* Variant of the page loop that gives up when the pages are exhausted
PageStepNoFallback(r1, a) ==
    IF a.raised THEN Raised(r1)
    ELSE IF ScopeHits(a.children, r1.name) # {}
    THEN Returned(r1, FirstData(a.children, r1.name))
    ELSE IF a.nextPageToken = "" \/ r1.page >= MaxPages
    THEN RaisedWith(r1, "Repository not found")
    ELSE [r1 EXCEPT !.page = @ + 1]

\* What the loop does with the answer to the request for page r1.page: return the
\* first scope of that name, else go on to the next page, else leave the loop for
\* the public API
PageStep(r1, a) ==
    IF a.raised THEN Raised(r1)
    ELSE IF ScopeHits(a.children, r1.name) # {}
    THEN Returned(r1, FirstData(a.children, r1.name))
    ELSE IF a.nextPageToken = "" \/ r1.page >= MaxPages
    THEN [r1 EXCEPT !.pc = "fallback"]
    ELSE [r1 EXCEPT !.page = @ + 1]

\* one turn of `for page in range(1, 6)`
search_github_repo_page ==
    /\ rs.pc = "page"
    /\ rs.plugin = "github"
    /\ \E a \in PageAnswers("github") :
          rs' = PageStep([rs EXCEPT !.calls = Append(@,
                             SearchCall("github", <<>>, rs.owner_id, rs.page,
                                        GithubPageSize)),
                                   !.pages = Append(@, a)], a)
    /\ UNCHANGED <<clientVars, remoteVars, requestVars, modalVars, parVars, chatVars>>

\* The end of _fallback_github_public_api for the answer a
PublicOutcome(r1, a) ==
    IF a.raised THEN RaisedWith(r1, "Failed to connect to GitHub API")
    ELSE IF a.status = 404 THEN RaisedWith(r1, "Repository not found")
    ELSE IF a.status # 200
    THEN RaisedWith(r1, "Failed to fetch repo details from GitHub API")
    ELSE Returned(r1, [n \in {"githubId", "name"} |-> IF n = "name" THEN 1 ELSE a.id])

\* _fallback_github_public_api
fallback_github_public_api ==
    /\ rs.pc = "fallback"
    /\ \E a \in PublicAnswers :
          rs' = PublicOutcome([rs EXCEPT !.calls = Append(@, PublicCall(rs.name)),
                                        !.public = a], a)
    /\ UNCHANGED <<clientVars, remoteVars, requestVars, modalVars, parVars, chatVars>>

search_gitlab_project ==
    /\ rs.pc \in {"idle", "done"}
    /\ \E name \in ResolveNames, a \in SearchAnswers :
          rs' = ResolveStart("gitlab", name, a)
    /\ UNCHANGED <<clientVars, remoteVars, requestVars, modalVars, parVars, chatVars>>

\* the one page of the group's projects the GitLab resolver reads
search_gitlab_project_page ==
    /\ rs.pc = "page"
    /\ rs.plugin = "gitlab"
    /\ \E a \in PageAnswers("gitlab") :
          LET r1 == [rs EXCEPT !.calls = Append(@,
                        SearchCall("gitlab", <<>>, rs.owner_id, 1, GitlabPageSize)),
                               !.pages = Append(@, a)]
          IN  rs' = IF a.raised THEN Raised(r1)
                    ELSE IF ScopeHits(a.children, rs.name) # {}
                    THEN Returned(r1, FirstData(a.children, rs.name))
                    ELSE RaisedWith(r1, "Project not found in group")
    /\ UNCHANGED <<clientVars, remoteVars, requestVars, modalVars, parVars, chatVars>>

\* What add_scope / add_gitlab_scope make of a finished resolver run: the error goes
\* on to the caller, metadata without the native id is turned into an error
\* (`if not github_id`), metadata with it is used
ResolverOutcome(r) ==
    IF r.outcome = "raised" THEN "error"
    ELSE IF Get(r.data, IdKey(r.plugin), 0) = 0 THEN "no_id"
    ELSE "found"

-----------------------------------------------------------------------------
(* slack_bot.py: open_add_repos_modal *)

\* ThreadPoolExecutor(max_workers=3)
MaxWorkers == 3

\* the three reads, in the order their results are asked for
Reads == <<"github_conns", "gitlab_conns", "projects">>

NoModal ==
    [pc |-> "idle", reads |-> [r \in Range(Reads) |-> "none"],
     msgs |-> <<>>, opened |-> FALSE, options |-> [connections |-> {}, projects |-> {}]]

\* the reads a worker thread is executing
Running(m) == {r \in Range(Reads) : m.reads[r] = "running"}

\* the first read, in the order of the .result() calls, that raised; "" if none
FirstFailed(reads) ==
    LET failed == {i \in DOMAIN Reads : reads[Reads[i]] = "failed"}
    IN  IF failed = {} THEN ""
        ELSE Reads[CHOOSE i \in failed : \A j \in failed : i <= j]

\* Variant of the outcome that builds the form from whatever reads succeeded
ModalOutcomeIgnoringFailures(reads, connection_options, project_options) ==
    IF connection_options = {} THEN [msg |-> "no_connections", opened |-> FALSE]
    ELSE IF project_options = {} THEN [msg |-> "no_projects", opened |-> FALSE]
    ELSE [msg |-> "", opened |-> TRUE]

\* What the handler does once the executor block is left: the failure message when a
\* read raised, a message when there is nothing to choose from, else the form
ModalOutcome(reads, connection_options, project_options) ==
    IF FirstFailed(reads) # ""
    THEN [msg |-> "fetch_failed:" \o FirstFailed(reads), opened |-> FALSE]
    ELSE IF connection_options = {} THEN [msg |-> "no_connections", opened |-> FALSE]
    ELSE IF project_options = {} THEN [msg |-> "no_projects", opened |-> FALSE]
    ELSE [msg |-> "", opened |-> TRUE]

\* /devlake-add-repos: ack, then the three reads are handed to the executor
open_add_repos_modal ==
    /\ modal.pc \in {"idle", "done"}
    /\ modal' = [NoModal EXCEPT !.pc = "waiting", !.msgs = <<"ack">>,
                                !.reads = [r \in Range(Reads) |-> "submitted"]]
    /\ UNCHANGED <<clientVars, remoteVars, requestVars, resolverVars, parVars, chatVars>>

\* a free worker thread takes up one of the reads
open_add_repos_modal_start ==
    /\ modal.pc = "waiting"
    /\ Cardinality(Running(modal)) < MaxWorkers
    /\ \E r \in Range(Reads) :
          /\ modal.reads[r] = "submitted"
          /\ modal' = [modal EXCEPT !.reads[r] = "running"]
    /\ UNCHANGED <<clientVars, remoteVars, requestVars, resolverVars, parVars, chatVars>>

\* a read returns or raises
open_add_repos_modal_finish ==
    /\ modal.pc = "waiting"
    /\ \E r \in Range(Reads), raised \in BOOLEAN :
          /\ modal.reads[r] = "running"
          /\ modal' = [modal EXCEPT !.reads[r] = IF raised THEN "failed" ELSE "ok"]
    /\ UNCHANGED <<clientVars, remoteVars, requestVars, resolverVars, parVars, chatVars>>

\* The executor block is left when every read has ended (shutdown waits for the
\* workers also when a .result() raised); then the message or the form
open_add_repos_modal_build ==
    /\ modal.pc = "waiting"
    /\ \A r \in Range(Reads) : modal.reads[r] \in {"ok", "failed"}
    /\ LET connection_options == DOMAIN rConfigs
           project_options == ExistingProjects
           o == ModalOutcome(modal.reads, connection_options, project_options)
       IN  modal' = [modal EXCEPT !.pc = "done",
                        !.msgs = IF o.msg # "" THEN Append(@, o.msg) ELSE @,
                        !.opened = o.opened,
                        !.options = IF o.opened
                                    THEN [connections |-> connection_options,
                                          projects |-> project_options]
                                    ELSE @]
    /\ UNCHANGED <<clientVars, remoteVars, requestVars, resolverVars, parVars, chatVars>>

-----------------------------------------------------------------------------
(* slack_bot.py: two handle_add_repos submissions handled at the same time; every
   request either sends to the remote is one step and the steps interleave freely *)

NumProcs == 2
Procs == 1..NumProcs

NoProc ==
    [pc |-> "idle", project_name |-> "", plugin |-> "", conn_id |-> 0, repo |-> "",
     seen |-> <<>>, scope_config_id |-> 0, created |-> FALSE,
     run |-> NoSearch, added_scope_ids |-> <<>>, connections |-> <<>>,
     linked |-> FALSE]

\* the steps of submission i leave everything but the remote and its own record alone
ParFrame(i, p1) ==
    /\ par' = [par EXCEPT ![i] = p1]
    /\ UNCHANGED <<clientVars, requestVars, resolverVars, modalVars, chatVars>>

\* the form is submitted: one repository for a connection and a project on offer
par_handle_add_repos ==
    \E i \in Procs :
       /\ par[i].pc = "idle"
       /\ \E project_name \in ExistingProjects, k \in DOMAIN rConfigs :
             \E repo \in ReposOf(k[1]) :
                ParFrame(i, [NoProc EXCEPT !.pc = "a_connections",
                                !.project_name = project_name, !.plugin = k[1],
                                !.conn_id = k[2], !.repo = repo])
       /\ UNCHANGED remoteVars

\* get_connections, for the name of the connection
par_get_connections ==
    \E i \in Procs, raised \in BOOLEAN :
       /\ par[i].pc = "a_connections"
       /\ ParFrame(i, [par[i] EXCEPT !.pc = IF raised THEN "done" ELSE "a_configs"])
       /\ UNCHANGED remoteVars

\* get_scope_configs, then reuse the first one or go and create one
par_get_scope_configs ==
    \E i \in Procs, raised \in BOOLEAN :
       LET existing_configs == rConfigs[ConnKey(par[i].plugin, par[i].conn_id)]
       IN  /\ par[i].pc = "a_configs"
           /\ ParFrame(i, IF raised THEN [par[i] EXCEPT !.pc = "done"]
                          ELSE IF reuse_scope_config(existing_configs)
                          THEN [par[i] EXCEPT !.pc = "a_add", !.seen = existing_configs,
                                   !.scope_config_id = existing_configs[1]]
                          ELSE [par[i] EXCEPT !.pc = "a_create_config",
                                   !.seen = existing_configs])
           /\ UNCHANGED remoteVars

\* create_scope_config(connection_id, name=conn_name, plugin)
par_create_scope_config ==
    \E i \in Procs, raised \in BOOLEAN :
       /\ par[i].pc = "a_create_config"
       /\ IF raised
          THEN ParFrame(i, [par[i] EXCEPT !.pc = "done"]) /\ UNCHANGED remoteVars
          ELSE /\ RemoteCreateConfig(par[i].plugin, par[i].conn_id, NewConfigId)
               /\ ParFrame(i, [par[i] EXCEPT !.pc = "a_add", !.created = TRUE,
                                   !.scope_config_id = NewConfigId])

\* the one turn of `for repo in repos`: the resolver of add_scope sends one request
par_add_scope ==
    \E i \in Procs :
       /\ par[i].pc = "a_add"
       /\ \E o \in ResolveAnswers(par[i].plugin, par[i].run) :
             LET run == Resolve(par[i].plugin, par[i].repo, par[i].run, o)
                 search == SearchFor(par[i].plugin, par[i].conn_id, par[i].repo, run.stage)
             IN  ParFrame(i, IF run.stage \notin ResolverOutcomes
                             THEN [par[i] EXCEPT !.run = run]
                             ELSE [par[i] EXCEPT !.run = NoSearch,
                                      !.pc = IF search.raised THEN "done" ELSE "a_put"])
       /\ UNCHANGED remoteVars

\* the turn ends with the PUT, then on to the link if a scope id was obtained
par_put_scope ==
    \E i \in Procs, sc \in PutScenarios :
       LET result == AddScopeOf(par[i].plugin, par[i].conn_id, par[i].repo,
                                par[i].scope_config_id, sc)
           added == AddOutcome(result.raised, result.scopes) = "added"
           scope_id == IF added /\ LenientScopeId(result.scopes).exc = ""
                       THEN LenientScopeId(result.scopes).id ELSE 0
       IN  /\ par[i].pc = "a_put"
           /\ ParFrame(i, IF scope_id # 0
                          THEN [par[i] EXCEPT !.pc = "a_link_project",
                                   !.added_scope_ids = <<str(scope_id)>>]
                          ELSE [par[i] EXCEPT !.pc = "done"])
           /\ UNCHANGED remoteVars

\* link_scopes_to_project: GET /api/projects/{name} for the id of the blueprint
par_get_project ==
    \E i \in Procs, raised \in BOOLEAN :
       /\ par[i].pc = "a_link_project"
       /\ ParFrame(i, [par[i] EXCEPT !.pc = IF raised THEN "done" ELSE "a_link_blueprint"])
       /\ UNCHANGED remoteVars

\* link_scopes_to_project: GET /api/blueprints/{id} for its connections
par_get_blueprint ==
    \E i \in Procs, raised \in BOOLEAN :
       /\ par[i].pc = "a_link_blueprint"
       /\ ParFrame(i, IF raised THEN [par[i] EXCEPT !.pc = "done"]
                      ELSE [par[i] EXCEPT !.pc = "a_link_patch",
                               !.connections = rProjects[par[i].project_name].connections])
       /\ UNCHANGED remoteVars

\* link_scopes_to_project: PATCH /api/blueprints/{id} with the merged connections
par_patch_blueprint ==
    \E i \in Procs, raised \in BOOLEAN :
       LET connections == link_scopes_to_project(par[i].connections, par[i].plugin,
                                                 par[i].conn_id, par[i].added_scope_ids)
       IN  /\ par[i].pc = "a_link_patch"
           /\ IF raised
              THEN ParFrame(i, [par[i] EXCEPT !.pc = "done"]) /\ UNCHANGED remoteVars
              ELSE /\ rProjects' = [rProjects EXCEPT
                          ![par[i].project_name].connections = connections]
                   /\ ParFrame(i, [par[i] EXCEPT !.pc = "done", !.linked = TRUE])
                   /\ UNCHANGED <<rConfigs, rPipelines, createdSC>>

-----------------------------------------------------------------------------
(* slack_bot.py: the list commands, the pagination buttons, the direct messages *)

\* page_size of send_project_list and of the list-all loop
ListPageSize == 10
ListAllPageSize == 50

\* the remote holds up to MaxProjects projects, numbered 1..n in the order it lists them
MaxProjects == 101

\* GET /api/projects?page=..&pageSize=..: the page-th slice of the list (page is
\* 1-based) and the total count
get_projects(n, page, page_size) ==
    LET first == (page - 1) * page_size
        k == IF n - first < 0 THEN 0
             ELSE IF n - first > page_size THEN page_size ELSE n - first
    IN  [projects |-> [i \in 1..k |-> first + i], count |-> n]

\* str(int) as its characters, and int(str) back
RECURSIVE str_chars(_)
str_chars(n) ==
    IF n < 10 THEN <<Digit[n + 1]>> ELSE str_chars(n \div 10) \o <<Digit[(n % 10) + 1]>>

RECURSIVE int(_)
int(s) ==
    LET value(c) == CHOOSE d \in 0..9 : Digit[d + 1] = c
    IN  IF Len(s) = 1 THEN value(s[1])
        ELSE 10 * int(SubSeq(s, 1, Len(s) - 1)) + value(s[Len(s)])

\* a message to the user
Reply(kind) ==
    [kind |-> kind, projects |-> <<>>, start |-> 0, end |-> 0, total |-> 0,
     buttons |-> <<>>]

NoChat ==
    [pc |-> "idle", cmd |-> "", total |-> 0, page |-> 0, all_projects |-> <<>>,
     calls |-> <<>>, acks |-> 0, replies |-> <<>>, exc |-> "", shown |-> Reply(""),
     event |-> [channel_type |-> "", subtype |-> "", text |-> <<>>]]

\* Variant of the test for more pages that also offers a page after a full last one
has_more_inclusive(total, page, page_size) == total >= page * page_size

has_more(total, page, page_size) == total > page * page_size

\* The body of send_project_list: the list message for page `page`, or "No projects
\* found." when the page is empty
project_list(n, page) ==
    LET projects == get_projects(n, page, ListPageSize)
        showing == Len(projects.projects)
        start == (page - 1) * ListPageSize + 1
        prev == IF page > 1
                THEN <<[action |-> "prev", value |-> str_chars(page - 1)]>> ELSE <<>>
        more == IF has_more(projects.count, page, ListPageSize)
                THEN <<[action |-> "next", value |-> str_chars(page + 1)]>> ELSE <<>>
    IN  IF projects.projects = <<>> THEN Reply("none")
        ELSE [kind |-> "page", projects |-> projects.projects, start |-> start,
              end |-> start + showing - 1, total |-> projects.count,
              buttons |-> prev \o more]

\* def send_project_list(client, channel_id, user_id, page=1): the parameters a call
\* with npos positional arguments and the given keywords leaves without a value
MissingArguments(npos, keywords) ==
    LET params == <<"client", "channel_id", "user_id", "page">>
        defaults == {"page"}
    IN  {params[i] : i \in (npos + 1)..Len(params)} \ (keywords \cup defaults)

\* A call of send_project_list: TypeError when an argument is missing,
\* DevLakeAPIError when the fetch fails, else the message it sends
send_project_list(npos, keywords, n, page, raised) ==
    IF MissingArguments(npos, keywords) # {}
    THEN [exc |-> "TypeError", calls |-> <<>>, sent |-> <<>>]
    ELSE IF raised
    THEN [exc |-> "DevLakeAPIError", sent |-> <<>>,
          calls |-> <<[page |-> page, page_size |-> ListPageSize]>>]
    ELSE [exc |-> "", sent |-> <<project_list(n, page)>>,
          calls |-> <<[page |-> page, page_size |-> ListPageSize]>>]

\* /devlake-list-projects: page 1, a failed fetch is reported
list_projects ==
    /\ chat.pc = "idle"
    /\ \E n \in 0..MaxProjects, raised \in BOOLEAN :
          LET r == send_project_list(3, {"page"}, n, 1, raised)
          IN  chat' = [NoChat EXCEPT !.pc = "done", !.cmd = "list", !.total = n,
                          !.page = 1, !.acks = 1, !.calls = r.calls,
                          !.replies = IF r.exc = "DevLakeAPIError"
                                      THEN <<Reply("fetch_failed")>> ELSE r.sent,
                          !.exc = IF r.exc = "DevLakeAPIError" THEN "" ELSE r.exc,
                          !.shown = IF r.sent # <<>> THEN r.sent[1] ELSE Reply("")]
    /\ UNCHANGED <<clientVars, remoteVars, requestVars, resolverVars, modalVars, parVars>>

\* a click on a button of the list on display: the page of the button's value; a
\* failed fetch is not caught here
handle_project_pagination ==
    /\ chat.pc = "done"
    /\ \E i \in DOMAIN chat.shown.buttons, raised \in BOOLEAN :
          LET page == int(chat.shown.buttons[i].value)
              r == send_project_list(3, {"page"}, chat.total, page, raised)
          IN  chat' = [chat EXCEPT !.cmd = "paginate", !.page = page, !.acks = 1,
                          !.calls = r.calls, !.replies = r.sent, !.exc = r.exc,
                          !.all_projects = <<>>,
                          !.event = NoChat.event,
                          !.shown = IF r.sent # <<>> THEN r.sent[1] ELSE @]
    /\ UNCHANGED <<clientVars, remoteVars, requestVars, resolverVars, modalVars, parVars>>

\* Variant of the end of the list-all loop that stops only at an empty page
is_empty_page(projects, page_size) == projects = <<>>

\* if len(projects) < page_size: break
is_last_page(projects, page_size) == Len(projects) < page_size

\* /devlake-list-all: ack, then the loop over the pages starts with page 1
list_all_projects ==
    /\ chat.pc = "idle"
    /\ \E n \in 0..MaxProjects :
          chat' = [NoChat EXCEPT !.pc = "la_fetch", !.cmd = "list_all", !.total = n,
                                 !.page = 1, !.acks = 1]
    /\ UNCHANGED <<clientVars, remoteVars, requestVars, resolverVars, modalVars, parVars>>

\* One turn of `while True`: fetch the page and keep its projects; after the last
\* page the one message with all of them, or "No projects found."; a failed fetch
\* ends the loop with the failure message
list_all_projects_page ==
    /\ chat.pc = "la_fetch"
    /\ \E raised \in BOOLEAN :
          LET result == get_projects(chat.total, chat.page, ListAllPageSize)
              all_projects == chat.all_projects \o result.projects
              calls == Append(chat.calls,
                              [page |-> chat.page, page_size |-> ListAllPageSize])
          IN  chat' =
                IF raised
                THEN [chat EXCEPT !.pc = "done", !.calls = calls,
                                  !.replies = <<Reply("fetch_failed")>>]
                ELSE IF is_last_page(result.projects, ListAllPageSize)
                THEN [chat EXCEPT !.pc = "done", !.calls = calls,
                                  !.all_projects = all_projects,
                                  !.replies = IF all_projects # <<>>
                                              THEN <<[Reply("all") EXCEPT
                                                         !.projects = all_projects,
                                                         !.total = Len(all_projects)]>>
                                              ELSE <<Reply("none")>>]
                ELSE [chat EXCEPT !.calls = calls, !.all_projects = all_projects,
                                  !.page = @ + 1]
    /\ UNCHANGED <<clientVars, remoteVars, requestVars, resolverVars, modalVars, parVars>>

\* the words handle_direct_message looks for, as characters
Keywords ==
    [requirement |-> <<"r", "e", "q", "u", "i", "r", "e", "m", "e", "n", "t">>,
     token |-> <<"t", "o", "k", "e", "n">>,
     help |-> <<"h", "e", "l", "p">>,
     pat |-> <<"p", "a", "t">>,
     scope |-> <<"s", "c", "o", "p", "e">>,
     list |-> <<"l", "i", "s", "t">>,
     all |-> <<"a", "l", "l">>,
     projects |-> <<"p", "r", "o", "j", "e", "c", "t", "s">>,
     create |-> <<"c", "r", "e", "a", "t", "e">>,
     new_project |-> <<"n", "e", "w", " ", "p", "r", "o", "j", "e", "c", "t">>]

\* three short greetings are answered with the help text
Greetings == {<<"h", "i">>, <<"h", "e", "l", "l", "o">>, <<"h", "e", "y">>}

\* texts of direct messages
DMTexts ==
    {<<"l", "i", "s", "t", " ", "p", "r", "o", "j", "e", "c", "t", "s">>,
     <<"L", "i", "s", "t", " ", "P", "r", "o", "j", "e", "c", "t", "s">>,
     <<"p", "r", "o", "j", "e", "c", "t", "s">>,
     <<"l", "i", "s", "t", " ", "a", "l", "l">>,
     <<"h", "e", "l", "p">>,
     <<"H", "E", "L", "P", "!">>,
     <<"h", "i">>,
     <<"l", "i", "s", "t", " ", "s", "c", "o", "p", "e", "s">>,
     <<"t", "o", "k", "e", "n">>,
     <<"c", "r", "e", "a", "t", "e">>,
     <<>>}

UpperCase ==
    <<"A", "B", "C", "D", "E", "F", "G", "H", "I", "J", "K", "L", "M",
      "N", "O", "P", "Q", "R", "S", "T", "U", "V", "W", "X", "Y", "Z">>
LowerCase ==
    <<"a", "b", "c", "d", "e", "f", "g", "h", "i", "j", "k", "l", "m",
      "n", "o", "p", "q", "r", "s", "t", "u", "v", "w", "x", "y", "z">>

\* str.lower(): every capital letter becomes its small letter, any other character
\* stays
lower(text) ==
    LET lower_char(ch) ==
            IF \E k \in DOMAIN UpperCase : UpperCase[k] = ch
            THEN LowerCase[CHOOSE k \in DOMAIN UpperCase : UpperCase[k] = ch]
            ELSE ch
    IN  [i \in DOMAIN text |-> lower_char(text[i])]

\* w in text
Contains(text, w) ==
    \E i \in 1..(Len(text) - Len(w) + 1) : SubSeq(text, i, i + Len(w) - 1) = w

\* the if/elif chain of handle_direct_message on the lower-cased text
dm_branch(text) ==
    IF \/ Contains(text, Keywords.requirement)
       \/ Contains(text, Keywords.token) /\ ~Contains(text, Keywords.help)
       \/ Contains(text, Keywords.pat)
       \/ Contains(text, Keywords.scope)
    THEN "requirements"
    ELSE IF Contains(text, Keywords.help) \/ text \in Greetings THEN "help"
    ELSE IF Contains(text, Keywords.list) /\ Contains(text, Keywords.all)
    THEN "list_all"
    ELSE IF Contains(text, Keywords.list) \/ Contains(text, Keywords.projects)
    THEN "list"
    ELSE IF Contains(text, Keywords.create) \/ Contains(text, Keywords.new_project)
    THEN "create"
    ELSE "greeting"

\* A message event: only direct messages not sent by a bot are answered. The list
\* branch calls send_project_list(say, channel, page=1); the list-all branch runs
\* the same loop as /devlake-list-all
handle_direct_message ==
    /\ chat.pc = "idle"
    /\ \E channel_type \in {"im", "channel"}, subtype \in {"", "bot_message"},
          text \in DMTexts, n \in 0..MaxProjects, raised \in BOOLEAN :
          LET event == [channel_type |-> channel_type, subtype |-> subtype,
                        text |-> text]
              branch == dm_branch(lower(text))
              base == [NoChat EXCEPT !.pc = "done", !.cmd = "dm", !.event = event]
              r == send_project_list(2, {"page"}, n, 1, raised)
          IN  chat' =
                IF channel_type # "im" \/ subtype = "bot_message" THEN base
                ELSE IF branch = "list_all"
                THEN [base EXCEPT !.pc = "la_fetch", !.total = n, !.page = 1]
                ELSE IF branch = "list"
                THEN [base EXCEPT !.total = n, !.page = 1, !.calls = r.calls,
                         !.replies = IF r.exc = "DevLakeAPIError"
                                     THEN <<Reply("fetch_failed")>> ELSE r.sent,
                         !.exc = IF r.exc = "DevLakeAPIError" THEN "" ELSE r.exc,
                         !.shown = IF r.sent # <<>> THEN r.sent[1] ELSE Reply("")]
                ELSE [base EXCEPT !.replies = <<Reply(branch)>>]
    /\ UNCHANGED <<clientVars, remoteVars, requestVars, resolverVars, modalVars, parVars>>

\* the if/elif chain of handle_mention on the lower-cased text: the chain of
\* handle_direct_message without the test for a greeting
mention_branch(text) ==
    IF \/ Contains(text, Keywords.requirement)
       \/ Contains(text, Keywords.token) /\ ~Contains(text, Keywords.help)
       \/ Contains(text, Keywords.pat)
       \/ Contains(text, Keywords.scope)
    THEN "requirements"
    ELSE IF Contains(text, Keywords.help) THEN "help"
    ELSE IF Contains(text, Keywords.list) /\ Contains(text, Keywords.all)
    THEN "list_all"
    ELSE IF Contains(text, Keywords.list) \/ Contains(text, Keywords.projects)
    THEN "list"
    ELSE IF Contains(text, Keywords.create) \/ Contains(text, Keywords.new_project)
    THEN "create"
    ELSE "greeting"

\* An app_mention event, answered whatever the channel: the list branch calls
\* send_project_list(client, channel, user, page=1) and reports a failed fetch; the
\* list-all branch runs the same loop as /devlake-list-all; nothing is acknowledged
handle_mention ==
    /\ chat.pc = "idle"
    /\ \E text \in DMTexts, n \in 0..MaxProjects, raised \in BOOLEAN :
          LET event == [channel_type |-> "channel", subtype |-> "", text |-> text]
              branch == mention_branch(lower(text))
              base == [NoChat EXCEPT !.pc = "done", !.cmd = "mention", !.event = event]
              r == send_project_list(3, {"page"}, n, 1, raised)
          IN  chat' =
                IF branch = "list_all"
                THEN [base EXCEPT !.pc = "la_fetch", !.total = n, !.page = 1]
                ELSE IF branch = "list"
                THEN [base EXCEPT !.total = n, !.page = 1, !.calls = r.calls,
                         !.replies = IF r.exc = "DevLakeAPIError"
                                     THEN <<Reply("fetch_failed")>> ELSE r.sent,
                         !.exc = IF r.exc = "DevLakeAPIError" THEN "" ELSE r.exc,
                         !.shown = IF r.sent # <<>> THEN r.sent[1] ELSE Reply("")]
                ELSE [base EXCEPT !.replies = <<Reply(branch)>>]
    /\ UNCHANGED <<clientVars, remoteVars, requestVars, resolverVars, modalVars, parVars>>

-----------------------------------------------------------------------------
(* Specifications *)

\* the client is configured with a token; nothing was requested yet
Init ==
    /\ api_token = "dl_tok"
    /\ session = NewSession(api_token)
    /\ http = NoHttp
    /\ RemoteInit
    /\ RequestInit
    /\ rs = NoRun
    /\ modal = NoModal
    /\ par = [i \in Procs |-> NoProc]
    /\ chat = NoChat

Steps ==
    \/ create_multi_platform_project_connection
    \/ create_multi_platform_project_configs
    \/ create_multi_platform_project_create_config
    \/ create_multi_platform_project_add
    \/ create_multi_platform_project_put
    \/ create_multi_platform_project_project
    \/ create_multi_platform_project_patch
    \/ create_multi_platform_project_trigger
    \/ create_full_project_connection
    \/ create_full_project_scope_config
    \/ create_full_project_add_scope
    \/ create_full_project_put
    \/ create_full_project_project
    \/ create_full_project_trigger
    \/ handle_add_repos_connections
    \/ handle_add_repos_configs
    \/ handle_add_repos_create_config
    \/ handle_add_repos_add
    \/ handle_add_repos_put
    \/ handle_add_repos_link_project
    \/ handle_add_repos_link_blueprint
    \/ handle_add_repos_link_patch

Next ==
    \/ handle_create_project
    \/ create_multi_platform_project
    \/ create_full_project
    \/ handle_add_repos
    \/ Steps

Spec == Init /\ [][Next]_vars

\* Requests one after the other: the next one starts when the one before has ended
MayStart == pc \in {"idle", "done"} /\ ops < MaxOps

next_handle_create_project ==
    /\ MayStart
    /\ SubmitCreate({"demo"}, {<<>>, <<"ok/repo1">>}, {<<>>, <<"grp/proj">>},
                    {"ghp_x"}, {"glpat_x"}, {"daily"})

next_create_multi_platform_project ==
    /\ MayStart
    /\ CallMulti({"demo"}, {<<>>, <<"ok/repo1">>}, {<<>>, <<"grp/proj">>},
                 {"ghp_x"}, {"glpat_x"}, {0, 1})

next_create_full_project ==
    /\ MayStart
    /\ CallFull({"demo"}, {"ok/repo1"}, {"ghp_x"})

next_handle_add_repos ==
    /\ MayStart
    /\ SubmitAdd(ExistingProjects, DOMAIN rConfigs,
                 [p \in Plugins |-> {<<>>} \cup {<<r>> : r \in ReposOf(p)}])

NextSeq ==
    \/ next_handle_create_project
    \/ next_create_multi_platform_project
    \/ next_create_full_project
    \/ next_handle_add_repos
    \/ Steps

SpecSeq == Init /\ [][NextSeq]_vars

InitClient ==
    /\ ClientInit
    /\ RemoteInit
    /\ RequestInit
    /\ rs = NoRun
    /\ modal = NoModal
    /\ par = [i \in Procs |-> NoProc]
    /\ chat = NoChat

NextClient ==
    \/ client_call
    \/ client_refresh
    \/ client_header
    \/ client_retry

SpecClient == InitClient /\ [][NextClient]_vars

NextClientShared ==
    \/ client_call_shared
    \/ client_refresh
    \/ client_header
    \/ client_retry_shared

SpecClientShared == InitClient /\ [][NextClientShared]_vars

NextResolve ==
    \/ search_github_repo
    \/ search_github_repo_page
    \/ fallback_github_public_api
    \/ search_gitlab_project
    \/ search_gitlab_project_page

\* the resolver reads nothing of the remote's connections and projects: one remote
InitResolve ==
    /\ Init
    /\ \A k \in DOMAIN rConfigs : rConfigs[k] = <<>>
    /\ ~rProjects["demo"].exists

SpecResolve == InitResolve /\ [][NextResolve]_vars

NextModal ==
    \/ open_add_repos_modal
    \/ open_add_repos_modal_start
    \/ open_add_repos_modal_finish
    \/ open_add_repos_modal_build

SpecModal == Init /\ [][NextModal]_vars

NextPar ==
    \/ par_handle_add_repos
    \/ par_get_connections
    \/ par_get_scope_configs
    \/ par_create_scope_config
    \/ par_add_scope
    \/ par_put_scope
    \/ par_get_project
    \/ par_get_blueprint
    \/ par_patch_blueprint

SpecPar == Init /\ [][NextPar]_vars

NextChat ==
    \/ list_projects
    \/ handle_project_pagination
    \/ list_all_projects
    \/ list_all_projects_page
    \/ handle_direct_message
    \/ handle_mention

SpecChat == Init /\ [][NextChat]_vars

\* every get_projects call of the list-all loop returns or raises
SpecChatFair == SpecChat /\ WF_vars(list_all_projects_page)

-----------------------------------------------------------------------------
(* Properties *)

\* C1: a logical call whose first response is a 401 re-establishes the session from
\* the API token and sends the same request once more, exactly once; a second 401
\* raises DevLakeAPIError; no logical call sends more than two HTTP requests. The
\* second request carries the rebuilt header unless another thread replaced the
\* shared session after this call had set it.
C1_RetryOnceOn401 ==
    http.requests # <<>> =>
        /\ Len(http.requests) <= 2
        /\ Len(http.responses) = Len(http.requests)
        /\ (Len(http.requests) = 2) = (http.responses[1] = Status(401))
        /\ http.responses[1] = Status(401) =>
              /\ http.refreshed
              /\ http.requests[2].auth \in {"", NewSession(api_token).auth}
              /\ ~http.overlapped =>
                    http.requests[2].auth = NewSession(api_token).auth
              /\ http.requests[2].method = http.requests[1].method
              /\ http.requests[2].endpoint = http.requests[1].endpoint
              /\ http.requests[2].body = http.requests[1].body
              /\ (http.responses[2] = Status(401) => http.raised)
              /\ (http.responses[2] = Status(200) => ~http.raised)

\* a call answered by two 401s, made by a client that holds a token
C1_Witness ==
    /\ api_token = "dl_tok"
    /\ Len(http.requests) = 2
    /\ http.responses = <<Status(401), Status(401)>>
    /\ http.requests[2].auth = "Bearer dl_tok"
    /\ http.raised

\* the get_scope_configs entries of the log that precede position i, for the same
\* connection
ConfigsSeenBefore(i) ==
    {j \in OpsOf(log, "get_scope_configs") :
        j < i /\ log[j].plugin = log[i].plugin /\ log[j].conn = log[i].conn}

\* C2: after any sequence of provisioning requests served one at a time, this client
\* has created at most one scope-config for any connection, and a request that found
\* a non-empty scope-config list for its connection makes no create_scope_config call.
C2_AtMostOneScopeConfig ==
    /\ \A k \in DOMAIN createdSC : createdSC[k] <= 1
    /\ \A i \in OpsOf(log, "create_scope_config") :
          \A j \in ConfigsSeenBefore(i) : log[j].data = <<>>

\* the second request of a sequence reuses the scope-config the first one created
C2_Witness ==
    /\ ops = 2
    /\ pc = "done"
    /\ out.status = "returned"
    /\ \E j \in OpsOf(log, "get_scope_configs") :
          /\ log[j].data # <<>>
          /\ createdSC[ConnKey(log[j].plugin, log[j].conn)] = 1
          /\ \E i \in OpsOf(log, "add_scope") :
                /\ i > j
                /\ log[i].data.scopeConfigId = log[j].data[1]
    /\ OpsOf(log, "create_scope_config") = {}

\* a repository of the multi-platform creation path failed: the resolver raised, or
\* the add-scope answer was an empty list
RepoFailed(res) ==
    \/ res.scenario[1] = "error"
    \/ res.scenario[1] = "found" /\ ~res.scenario[2] /\ res.scenario[3] = "empty_list"

\* the request runs the multi-platform creation path
MultiPath == req.kind \in {"multi", "form"}

TotalRepos == Len(req.repos.github) + Len(req.repos.gitlab)

\* C3: in create_multi_platform_project the failure of one repository does
\* not abort the batch, so the request never ends on a failed repository without a
\* project-creation call having been made.
C3_BatchSurvivesRepoFailure ==
    ~ /\ MultiPath
      /\ pc = "done"
      /\ loc.results # <<>>
      /\ RepoFailed(loc.results[Len(loc.results)])
      /\ OpsOf(log, "create_project") = {}

\* add_scope returned an empty scopes list for the repository
EmptyScopes(res) ==
    res.scenario[1] = "found" /\ ~res.scenario[2] /\ res.scenario[3] = "empty_list"

\* add_scope returned a scope that carries its id
AddedWithId(res) ==
    res.scenario[1] = "found" /\ ~res.scenario[2] /\ res.scenario[3] \in {"wrapped", "flat"}

\* scope ids of the repositories added so far, as the blueprint names them
AddedIds == {str(NativeId(loc.results[i].repo)) :
                i \in {j \in DOMAIN loc.results : AddedWithId(loc.results[j])}}

\* scope ids a payload of the blueprint holds for the connection
ScopeIdsFor(connections, plugin, connection_id) ==
    UNION {{s.scopeId : s \in Range(connections[i].scopes)} :
             i \in {j \in DOMAIN connections :
                      /\ connections[j].pluginName = plugin
                      /\ connections[j].connectionId = connection_id}}

\* C4: in handle_add_repos a repository whose add_scope returns an empty scopes list
\* is reported as failed ("not found or no access") without ending the batch: every
\* repository is attempted, the others are reported as added, and the blueprint is
\* patched with the scope ids of the added repositories only.
C4_EmptyScopesIsSoftFailure ==
    req.kind = "add" =>
        /\ \A i \in DOMAIN loc.results :
              EmptyScopes(loc.results[i]) =>
                 /\ [repo |-> loc.results[i].repo, why |-> "not found or no access"]
                       \in Range(loc.failed_repos)
                 /\ loc.results[i].repo \notin Range(loc.added_repos)
                     \/ \E j \in DOMAIN loc.results :
                           j # i /\ loc.results[j].repo = loc.results[i].repo
                 /\ out.status \notin {"handled", "raised"}
                 /\ pc = "done" => Len(loc.results) = Len(req.repos[req.plugin])
        /\ \A i \in DOMAIN loc.results :
              AddedWithId(loc.results[i]) => loc.results[i].repo \in Range(loc.added_repos)
        /\ Range(loc.added_scope_ids) = AddedIds
        /\ \A i \in OpsOf(log, "patch_blueprint") :
              ScopeIdsFor(log[i].data.connections, req.plugin, req.conn_id[req.plugin])
                 = ScopeIdsFor(loc.connections, req.plugin, req.conn_id[req.plugin])
                      \cup AddedIds

\* ["ok/repo1", "bad/repo2"], the add of bad/repo2 answered by an empty list: repo1 is
\* added, repo2 failed, and the blueprint is patched with repo1's scope id only
C4_Witness ==
    /\ req.kind = "add"
    /\ req.plugin = "github"
    /\ req.repos.github = <<"ok/repo1", "bad/repo2">>
    /\ pc = "done"
    /\ Len(loc.results) = 2
    /\ loc.results[2].scenario = <<"found", FALSE, "empty_list">>
    /\ loc.added_repos = <<"ok/repo1">>
    /\ loc.failed_repos = <<[repo |-> "bad/repo2", why |-> "not found or no access"]>>
    /\ msgs[Len(msgs)] = "added_and_failed"
    /\ \E i \in OpsOf(log, "patch_blueprint") :
          /\ "101" \in ScopeIdsFor(log[i].data.connections, "github", req.conn_id.github)
          /\ "102" \notin ScopeIdsFor(log[i].data.connections, "github", req.conn_id.github)
    /\ "101" \in ScopeIdsFor(rProjects[req.project_name].connections, "github",
                             req.conn_id.github)

\* the end-to-end scenario: "demo", one GitHub repository, a token, no connection id,
\* the daily schedule, and every call succeeded
EndToEnd ==
    /\ req.kind = "form"
    /\ req.project_name = "demo"
    /\ req.repos.github = <<"acme/widget">>
    /\ req.repos.gitlab = <<>>
    /\ req.token.github # ""
    /\ req.conn_id.github = 0
    /\ req.schedule = "daily"
    /\ pc = "done"
    /\ out.status = "returned"

\* C5: the end-to-end creation of "demo" with ["acme/widget"] issues exactly one
\* connection creation, one scope-config creation, one add-scope for acme/widget, one
\* project creation with cron "0 0 * * *" and one trigger, and returns success, the
\* project name and the id of the triggered pipeline.
C5_EndToEndCreation ==
    EndToEnd =>
        /\ CountOp(log, "create_connection") = 1
        /\ CountOp(log, "create_scope_config") = 1
        /\ CountOp(log, "add_scope") = 1
        /\ \A i \in OpsOf(log, "add_scope") : log[i].data.repo = "acme/widget"
        /\ CountOp(log, "create_project") = 1
        /\ \A i \in OpsOf(log, "create_project") :
              log[i].data.name = "demo" /\ log[i].data.cronConfig = "0 0 * * *"
        /\ CountOp(log, "trigger_blueprint") = 1
        /\ out.result.success
        /\ out.result.project = "demo"
        /\ out.result.pipeline_id = rPipelines
        /\ out.result.pipeline_id > 0

\* the scenario has run to its end
C5_Witness ==
    /\ EndToEnd
    /\ Len(log) = 8
    /\ rProjects["demo"].exists
    /\ msgs = <<"ack", "working", "success", "announce">>

\* (plugin, connectionId, scopeId) entries of a blueprint's connections
Triples(connections) ==
    UNION {{<<connections[i].pluginName, connections[i].connectionId, s.scopeId>> :
               s \in Range(connections[i].scopes)} : i \in DOMAIN connections}

\* C6: handle_add_repos for a connection that already has a scope-config creates no
\* scope-config and puts the existing one's id in the add-scope payload; the blueprint
\* patch holds every (plugin, connectionId, scopeId) entry the blueprint held before
\* plus the new scope ids.
C6_AddReposReusesAndMerges ==
    req.kind = "add" =>
        /\ \A j \in OpsOf(log, "get_scope_configs") :
              log[j].data # <<>> =>
                 /\ OpsOf(log, "create_scope_config") = {}
                 /\ \A i \in OpsOf(log, "add_scope") :
                       log[i].data.scopeConfigId = log[j].data[1]
        /\ \A i \in OpsOf(log, "patch_blueprint") :
              /\ Triples(loc.connections) \subseteq Triples(log[i].data.connections)
              /\ \A sid \in Range(loc.added_scope_ids) :
                    <<req.plugin, req.conn_id[req.plugin], sid>>
                       \in Triples(log[i].data.connections)
              /\ pc = "done" /\ loc.link_error = "" =>
                    rProjects[req.project_name].connections = log[i].data.connections

\* one new repository added to "demo" over the GitHub connection that has
\* scope-configs 4 and 3: scope-config 4 is used, the blueprint keeps scope 101 and
\* gains scope 102
C6_Witness ==
    /\ req.kind = "add"
    /\ req.project_name = "demo"
    /\ req.plugin = "github"
    /\ req.conn_id.github = 1
    /\ req.repos.github = <<"bad/repo2">>
    /\ pc = "done"
    /\ OpsOf(log, "create_scope_config") = {}
    /\ \E i \in OpsOf(log, "add_scope") : log[i].data.scopeConfigId = 4
    /\ Triples(loc.connections) = {<<"github", 1, "101">>}
    /\ Triples(rProjects["demo"].connections)
          = {<<"github", 1, "101">>, <<"github", 1, "102">>}

\* C7: create_multi_platform_project for the name of a project the remote already
\* holds issues no project-creation call for that name.
C7_NoCreationOfExistingProject ==
    [][(MultiPath /\ CountOp(log', "create_project") > CountOp(log, "create_project"))
          => ~rProjects[req.project_name].exists]_vars

\* C8: a run of the resolver that returns hands back metadata with a non-empty
\* native id; it never returns metadata without one.
C8_ResolverNeverReturnsEmptyMetadata ==
    rs.outcome = "returned" =>
        /\ Len(split(rs.name, "/")) = 2
        /\ Get(rs.data, IdKey(rs.plugin), 0) # 0

\* the table of the schedules, as literals
ExpectedCron(k) ==
    CASE k = "daily" -> "0 0 * * *"
      [] k = "weekly" -> "0 0 * * 1"
      [] k = "every_6h" -> "0 */6 * * *"
      [] k = "every_12h" -> "0 */12 * * *"
      [] OTHER -> "?"

\* C9: the schedule table has exactly the four entries daily, weekly, every_6h and
\* every_12h with their literal cron strings; the project-creation payload and the
\* follow-up blueprint patch of a submission carry the literal of its key, and a key
\* outside the table maps to no cron string.
C9_ScheduleTable ==
    /\ DOMAIN CRON_SCHEDULES = {"daily", "weekly", "every_6h", "every_12h"}
    /\ \A k \in DOMAIN CRON_SCHEDULES : CRON_SCHEDULES[k] = ExpectedCron(k)
    /\ req.kind = "form" =>
          /\ \A i \in OpsOf(log, "create_project") \cup OpsOf(log, "patch_blueprint") :
                /\ req.schedule \in {"daily", "weekly", "every_6h", "every_12h"}
                /\ log[i].data.cronConfig = ExpectedCron(req.schedule)
          /\ req.schedule \notin {"daily", "weekly", "every_6h", "every_12h"} =>
                req.cron_config = ""

\* a submission with every_6h has sent its project creation and its patch
C9_Witness ==
    /\ req.kind = "form"
    /\ req.schedule = "every_6h"
    /\ \E i \in OpsOf(log, "create_project") : log[i].data.cronConfig = "0 */6 * * *"
    /\ \E i \in OpsOf(log, "patch_blueprint") : log[i].data.cronConfig = "0 */6 * * *"
    /\ rProjects[req.project_name].cron = "0 */6 * * *"

\* C10: a create-project submission with a schedule key outside the table ends before
\* any remote call: no connection, scope-config, scope or project request is issued.
C10_UnknownScheduleMakesNoCall ==
    (req.kind = "form" /\ req.schedule \notin {"daily", "weekly", "every_6h", "every_12h"})
        => /\ log = <<>>
           /\ pc = "done"
           /\ out.status \in {"rejected", "raised"}
           /\ ~out.result.success

\* a valid form with the schedule "hourly": the lookup raises KeyError after the ack
C10_Witness ==
    /\ req.kind = "form"
    /\ req.schedule = "hourly"
    /\ req.repos.github # <<>>
    /\ msgs = <<"ack", "working">>
    /\ out.status = "raised"
    /\ out.exc = "KeyError"
    /\ log = <<>>

\* every repository attempted so far was resolved and added with its scope
AllAdded == \A i \in DOMAIN loc.results :
                loc.results[i].scenario = <<"found", FALSE, "wrapped">>

\* C11: the multi-platform creation path ends with a result that carries
\* the success flag even when a repository failed, and the result holds the per-repo
\* success and failure lists.
C11_ResultWithPerRepoLists ==
    (MultiPath /\ pc = "done" /\ loc.results # <<>>) =>
        \/ /\ out.status = "returned"
           /\ out.result.success
           /\ \E k \in DOMAIN out.result : k \notin {"success", "project", "blueprint_id",
                                                      "pipeline_id", "dashboard_url"}
        \/ /\ AllAdded
           /\ out.status # "returned"

\* The HTTP requests of the last client call whose body holds a hosting token
TokenRequests == {i \in DOMAIN http.requests : http.requests[i].body.token \in HostingTokens}

ConnectionEndpoints == {"/api/plugins/" \o p \o "/connections" : p \in Plugins}

\* C12: a hosting-provider token is transmitted at most once, only in the body of
\* the connection-creation POST of its platform, and is not sent again by a retry.
C12_TokenSentAtMostOnce ==
    /\ Cardinality(TokenRequests) <= 1
    /\ \A i \in TokenRequests :
          /\ http.requests[i].method = "POST"
          /\ http.requests[i].endpoint \in ConnectionEndpoints

\* C12, the part the client does keep: the token travels only in connection-creation
\* POSTs, however many times the retry sends that POST
C12_TokenOnlyInConnectionPost ==
    \A i \in TokenRequests :
        /\ http.requests[i].method = "POST"
        /\ http.requests[i].endpoint \in ConnectionEndpoints


\* the error of the last client call names neither its payload nor a hosting token
ErrorIsSanitized ==
    /\ \A t \in HostingTokens : t \notin Range(http.error.text)
    /\ http.call.body.json # "" => http.call.body.json \notin Range(http.error.text)

\* C13: every failed client call (transport error, non-2xx status, malformed body)
\* ends in a DevLakeAPIError that carries the method, the endpoint and the underlying
\* message, and never the payload or a hosting token.
C13_UniformError ==
    http.raised =>
        /\ http.error.kind = "DevLakeAPIError"
        /\ http.call.method \in Range(http.error.text)
        /\ http.call.endpoint \in Range(http.error.text)
        /\ ErrorIsSanitized

\* C13, what the client does guarantee: a failed call leaks neither payload nor
\* token, and when the error is a DevLakeAPIError its method and endpoint are in the
\* log line, not in the error
C13_ErrorNeverCarriesPayload ==
    http.raised =>
        /\ ErrorIsSanitized
        /\ http.error.kind = "DevLakeAPIError" =>
              /\ http.call.method \in Range(http.logged)
              /\ http.call.endpoint \in Range(http.logged)
              /\ http.call.method \notin Range(http.error.text)


\* C15: no field of the long-lived client holds a hosting-provider token: _api_token
\* is the platform's own token and the session's Authorization header is absent or
\* built from it alone, also after a connection-creation call (retried or not) has
\* returned, whichever thread replaced the session last.
C15_ClientRetainsNoHostingToken ==
    /\ api_token \notin HostingTokens
    /\ session.auth \in {"", "Bearer " \o api_token}
    /\ \A t \in HostingTokens : session.auth # "Bearer " \o t
    /\ \A t \in Threads :
          http.inflight[t].pc = "idle" => http.inflight[t].call = NoCall

\* a connection-creation call carrying a hosting token has returned normally after
\* the session was rebuilt
C15_Witness ==
    /\ http.call.body.token \in HostingTokens
    /\ http.refreshed
    /\ Len(http.requests) = 2
    /\ ~http.raised


\* the verbs of all the requests logged so far
MethodsUsed == {HttpMethod(log[i].op) : i \in DOMAIN log}

\* one step keeps every remote connection, scope-config, project and pipeline
RemoteOnlyGrows ==
    /\ DOMAIN rConfigs \subseteq DOMAIN rConfigs'
    /\ \A k \in DOMAIN rConfigs : Range(rConfigs[k]) \subseteq Range(rConfigs'[k])
    /\ \A n \in DOMAIN rProjects : rProjects[n].exists => rProjects'[n].exists
    /\ rPipelines' >= rPipelines

\* the connection and scope-config the request in hand uses are on the remote
InPlace ==
    /\ \A p \in Plugins :
          loc.conn[p] # 0 => ConnKey(p, loc.conn[p]) \in DOMAIN rConfigs
    /\ loc.scope_config_id # 0 =>
          \E k \in DOMAIN rConfigs : loc.scope_config_id \in Range(rConfigs[k])

\* C14: after any sequence of operations no request deleting a remote object has
\* been issued: every request is a GET, POST, PUT or PATCH, no step removes a
\* connection, scope-config, project or pipeline, and the objects a failed request
\* created are still in place.
C14_NothingDeleted ==
    /\ [](MethodsUsed \subseteq {"GET", "POST", "PUT", "PATCH"} /\ InPlace)
    /\ [][RemoteOnlyGrows]_vars

\* a request failed after it had created a connection and a scope-config for it
C14_Witness ==
    /\ pc = "done"
    /\ out.status \in {"raised", "handled"}
    /\ \E p \in Plugins :
          /\ req.token[p] # ""
          /\ OpsOf(log, "create_connection") # {}
          /\ loc.conn[p] # 0
          /\ loc.scope_config_id # 0
          /\ ConnKey(p, loc.conn[p]) \in DOMAIN rConfigs
          /\ loc.scope_config_id \in Range(rConfigs[ConnKey(p, loc.conn[p])])


\* the name splits on "/" into exactly two parts, neither of them empty
TwoNonEmptySegments(name) ==
    LET parts == split(name, "/")
    IN  Len(parts) = 2 /\ parts[1] # <<>> /\ parts[2] # <<>>

\* C16: a name that does not split on "/" into exactly two non-empty segments (no
\* slash, more than one slash, empty owner or repo segment) is refused with the
\* invalid-path error before any remote request is made.
C16_RejectsMalformedNames ==
    (rs.pc # "idle" /\ ~TwoNonEmptySegments(rs.name)) =>
        /\ rs.calls = <<>>
        /\ rs.outcome = "raised"
        /\ rs.error = InvalidPath(rs.plugin)

\* C16, the check the resolvers do make: a name that does not split into exactly
\* two parts is refused before any request, whatever the parts are
C16_RejectsWrongPartCount ==
    (rs.pc # "idle" /\ Len(split(rs.name, "/")) # 2) =>
        /\ rs.calls = <<>>
        /\ rs.outcome = "raised"
        /\ rs.error = InvalidPath(rs.plugin)


\* the children of the owner search that are groups named exactly as the owner segment
OwnerMatches ==
    {i \in DOMAIN rs.search :
        rs.search[i].type = "group" /\ rs.search[i].name = split(rs.name, "/")[1]}

RemoteScopesCalls == {i \in DOMAIN rs.calls : rs.calls[i].api = "remote-scopes"}
PublicCalls == {i \in DOMAIN rs.calls : rs.calls[i].api = "github-public"}

\* a GitHub run whose owner search was answered
GithubSearched ==
    /\ rs.plugin = "github"
    /\ Len(rs.calls) >= 1
    /\ ~(Len(rs.calls) = 1 /\ rs.error = "API request failed")

\* C17: on the GitHub path the owner is matched only by a child of the owner search
\* that is a group named exactly as the owner segment; without such a child there
\* is no further remote-scopes request and the public GitHub API is asked, whose 404
\* ends the run with the not-found error, whose other non-200 status ends it with
\* the upstream error, and whose 200 gives metadata with the public repository id.
C17_OwnerMatchAndFallback ==
    /\ (rs.plugin = "github" /\ rs.owner_id # 0) =>
          /\ OwnerMatches # {}
          /\ \E i \in OwnerMatches : rs.search[i].id = rs.owner_id
    /\ (GithubSearched /\ OwnerMatches = {}) =>
          /\ Cardinality(RemoteScopesCalls) = 1
          /\ rs.pc \in {"fallback", "done"}
          /\ rs.pc = "done" => rs.calls = <<rs.calls[1], PublicCall(rs.name)>>
    /\ (PublicCalls # {} /\ ~rs.public.raised) =>
          /\ rs.pc = "done"
          /\ rs.public.status = 404 =>
                rs.outcome = "raised" /\ rs.error = "Repository not found"
          /\ rs.public.status \notin {200, 404} =>
                /\ rs.outcome = "raised"
                /\ rs.error = "Failed to fetch repo details from GitHub API"
          /\ rs.public.status = 200 =>
                /\ rs.outcome = "returned"
                /\ Get(rs.data, "githubId", 0) = rs.public.id

\* the owner search gave a child with the owner's name that is no group, and the
\* public API supplied the repository
C17_Witness ==
    /\ rs.plugin = "github"
    /\ rs.name = Chars("o", "r")
    /\ rs.search # <<>>
    /\ \E i \in DOMAIN rs.search : rs.search[i].name = <<"o">>
    /\ OwnerMatches = {}
    /\ Len(rs.calls) = 2
    /\ rs.public.status = 200
    /\ rs.outcome = "returned"
    /\ rs.data["githubId"] = 9


\* a GitHub run that has matched its owner and asked for pages
GithubPaging == rs.plugin = "github" /\ rs.owner_id # 0 /\ rs.pages # <<>>

\* page i was answered and holds no scope of the requested full name
PageMisses(i) == ~rs.pages[i].raised /\ ScopeHits(rs.pages[i].children, rs.name) = {}

\* the last page read misses and ends the search: no further page, or the fifth
PagesExhausted ==
    LET n == Len(rs.pages)
    IN  /\ PageMisses(n)
        /\ (rs.pages[n].nextPageToken = "" \/ n = MaxPages)

\* C18: with a matched owner the GitHub resolver asks for the owner's pages 1, 2, ...
\* in order with page size 200, stops at the first page holding a scope whose
\* fullName is the requested string, reads at most 5 pages, and when the pages are
\* exhausted without a match asks the public GitHub API instead of failing.
C18_PagingThenFallback ==
    GithubPaging =>
        LET n == Len(rs.pages)
        IN  /\ n <= MaxPages
            /\ Cardinality(RemoteScopesCalls) = n + 1
            /\ \A i \in 1..n :
                  rs.calls[i + 1] =
                      SearchCall("github", <<>>, rs.owner_id, i, GithubPageSize)
            /\ \A i \in 1..(n - 1) :
                  PageMisses(i) /\ rs.pages[i].nextPageToken # ""
            /\ (rs.outcome = "returned" /\ PublicCalls = {}) =>
                  /\ ScopeHits(rs.pages[n].children, rs.name) # {}
                  /\ rs.data = FirstData(rs.pages[n].children, rs.name)
            /\ PagesExhausted =>
                  /\ rs.pc \in {"fallback", "done"}
                  /\ rs.pc = "done" =>
                        /\ Len(rs.calls) = n + 2
                        /\ rs.calls[n + 2] = PublicCall(rs.name)
            /\ PublicCalls # {} => PagesExhausted
            /\ (~PagesExhausted /\ PageMisses(n)) => rs.pc = "page" /\ rs.page = n + 1

\* five pages were read without a match, each announcing a further page, and the
\* public API was asked
C18_Witness ==
    /\ GithubPaging
    /\ Len(rs.pages) = MaxPages
    /\ rs.pages[MaxPages].nextPageToken # ""
    /\ PagesExhausted
    /\ PublicCalls # {}
    /\ rs.pc = "done"


\* a GitLab run whose group search was answered
GitlabSearched ==
    /\ rs.plugin = "gitlab"
    /\ Len(rs.calls) >= 1
    /\ ~(Len(rs.calls) = 1 /\ rs.error = "API request failed")

\* C19: the GitLab resolver makes at most two remote-scopes requests, the group
\* search with page size 50 and one listing of the group's projects with page size
\* 100, never asks a public hosting API, and raises a not-found error when the
\* group or the project is not on those single pages.
C19_GitlabTwoRequestsNoFallback ==
    rs.plugin = "gitlab" =>
        /\ Len(rs.calls) <= 2
        /\ PublicCalls = {}
        /\ rs.pc # "fallback"
        /\ Len(rs.calls) >= 1 =>
              rs.calls[1] = SearchCall("gitlab", split(rs.name, "/")[1], 0, 1,
                                       SearchPageSize)
        /\ Len(rs.calls) = 2 =>
              rs.calls[2] = SearchCall("gitlab", <<>>, rs.owner_id, 1, GitlabPageSize)
        /\ (GitlabSearched /\ OwnerMatches = {}) =>
              /\ Len(rs.calls) = 1
              /\ rs.outcome = "raised"
              /\ rs.error = "Group not found"
        /\ (Len(rs.pages) = 1 /\ PageMisses(1)) =>
              /\ rs.outcome = "raised"
              /\ rs.error = "Project not found in group"

\* the group was found and its page of projects does not hold the project
C19_Witness ==
    /\ rs.plugin = "gitlab"
    /\ rs.name = Chars("o", "r")
    /\ Len(rs.calls) = 2
    /\ Len(rs.pages) = 1
    /\ PageMisses(1)
    /\ rs.pages[1].nextPageToken # ""
    /\ rs.error = "Project not found in group"


\* the client methods called so far, in order
OpsSeq == [i \in DOMAIN log |-> log[i].op]

\* the remote steps of create_full_project
FullOrder ==
    <<"create_connection", "create_scope_config", "search", "add_scope",
      "create_project", "trigger_blueprint">>

IsPrefix(s, t) == Len(s) <= Len(t) /\ \A i \in DOMAIN s : s[i] = t[i]

\* C20: create_full_project makes its remote calls in one fixed order: create the
\* connection, (create the scope-config,) resolve and add the scope, create the
\* project, trigger the blueprint; it never looks up connections or scope-configs
\* and always starts by creating a connection; a step is only reached when all
\* steps before it succeeded, and a failure ends the call with the error raised to
\* the caller and no result.
C20_FullPathOrder ==
    req.kind = "full" =>
        /\ IsPrefix(OpsSeq, FullOrder)
        /\ OpsOf(log, "get_connections") = {} /\ OpsOf(log, "get_scope_configs") = {}
        /\ loc.conn.github # 0 => log[1].op = "create_connection"
        /\ \A i \in DOMAIN log :
              log[i].op \in {"create_scope_config", "search", "add_scope"} =>
                  loc.conn.github # 0 /\ log[i].conn = loc.conn.github
        /\ \A i \in OpsOf(log, "search") \cup OpsOf(log, "add_scope") :
              loc.scope_config_id # 0
        /\ \A i \in OpsOf(log, "create_project") :
              /\ loc.github_id # 0
              /\ log[i].data.plan[1].connectionId = loc.conn.github
              /\ log[i].data.plan[1].githubId = loc.github_id
        /\ OpsOf(log, "trigger_blueprint") # {} => loc.blueprint_id # 0
        /\ out.status \in {"none", "raised", "returned"}
        /\ out.status = "raised" =>
              /\ pc = "done"
              /\ out.exc \in {"DevLakeAPIError", "IndexError", "KeyError", "TypeError"}
              /\ out.result = NoResult
        /\ out.status = "returned" => pc = "done" /\ OpsSeq = FullOrder
        /\ (pc = "done" /\ OpsSeq # FullOrder) => out.status = "raised"

\* the call failed at the add-scope step, after the connection and the scope-config
\* were created: nothing was asked of the remote afterwards
C20_Witness ==
    /\ req.kind = "full"
    /\ pc = "done"
    /\ out.status = "raised"
    /\ out.exc = "IndexError"
    /\ OpsSeq = <<"create_connection", "create_scope_config", "search", "add_scope">>


\* positions of the log entries of the calls made for platform p
PlatformOps(p) == {i \in DOMAIN log : log[i].plugin = p}

\* the request reached the project-level steps
ProjectStage ==
    \/ pc \in {"m_project", "m_patch", "m_trigger"}
    \/ OpsOf(log, "create_project") # {}

\* the number of scopes added when the section of platform p is entered
ScopesBefore(p) == IF p = "github" THEN 0 ELSE Len(req.repos.github)

\* C21: in create_multi_platform_project, for each platform on its own: an empty
\* repository list means no call for that platform and no credential error; with
\* repositories a supplied connection id is used and no connection is created, token
\* or not; without an id a token leads to exactly one connection creation, made
\* before anything else for the platform; without either the request fails with
\* DevLakeAPIError before any repository of that platform is processed.
C21_ConnectionPerPlatform ==
    req.kind = "multi" =>
        \A p \in Plugins :
            LET mine == PlatformOps(p)
                created == {i \in mine : log[i].op = "create_connection"}
            IN  /\ req.repos[p] = <<>> => mine = {}
                /\ (req.repos[p] # <<>> /\ req.conn_id[p] # 0) =>
                      /\ created = {}
                      /\ \A i \in mine : log[i].conn = req.conn_id[p]
                /\ (req.repos[p] # <<>> /\ req.conn_id[p] = 0 /\ req.token[p] # "") =>
                      /\ Cardinality(created) <= 1
                      /\ \A i \in mine : \E j \in created : j <= i
                      /\ \A i \in created : log[i].data.token = req.token[p]
                      /\ ProjectStage => Cardinality(created) = 1
                /\ (req.repos[p] # <<>> /\ req.conn_id[p] = 0 /\ req.token[p] = "") =>
                      /\ mine = {}
                      /\ ~ProjectStage
                      /\ pc = "done" => out.status = "raised"
                      /\ Len(loc.scope_configs) = ScopesBefore(p) =>
                            /\ pc = "done"
                            /\ out.exc = "DevLakeAPIError"

\* GitHub repositories were added on the supplied connection although a token came
\* with it, and the request then failed for want of a GitLab credential
C21_Witness ==
    /\ req.kind = "multi"
    /\ req.repos.github # <<>> /\ req.conn_id.github = 1 /\ req.token.github = "ghp_x"
    /\ req.repos.gitlab # <<>> /\ req.conn_id.gitlab = 0 /\ req.token.gitlab = ""
    /\ OpsOf(log, "add_scope") # {}
    /\ OpsOf(log, "create_connection") = {}
    /\ PlatformOps("gitlab") = {}
    /\ pc = "done"
    /\ out.exc = "DevLakeAPIError"


\* positions of the calls of client method o made for platform p
PlatformCalls(p, o) == {i \in OpsOf(log, o) : log[i].plugin = p}

\* the name a scope-config created by the request is given in the creation path: the
\* project's name; in the add-repos path: the name the remote holds for the connection
ConnectionConfigName ==
    [p \in Plugins |->
        IF req.kind = "add" THEN ConnectionName(p, req.conn_id[p]) ELSE req.project_name]

\* the same, with the add-repos path naming the scope-config from the listing that
\* get_connections answered: the name listed for the connection, "connection-<id>"
\* when it is listed without a name, "connection" when it is not listed
ListedConfigName ==
    [p \in Plugins |->
        IF req.kind = "add"
        THEN LET listings == PlatformCalls(p, "get_connections")
                 answer == log[CHOOSE g \in listings : TRUE].data
                 own == {i \in DOMAIN answer.entries :
                            answer.entries[i].id = req.conn_id[p]}
                 first == answer.entries[CHOOSE i \in own : \A j \in own : i <= j]
             IN  IF listings = {} THEN ""
                 ELSE IF ~answer.is_list \/ own = {} THEN "connection"
                 ELSE IF first.has_name THEN first.name
                 ELSE "connection-" \o str(req.conn_id[p])
        ELSE req.project_name]

\* within one provisioning request and one platform every add-scope payload carries
\* the same scopeConfigId: the id of the first scope-config of the list answered for
\* the connection when that list is not empty, else the id of the one scope-config
\* the request created, under the name expected[p]
OneScopeConfigPerPlatform(expected) ==
    req.kind \in {"multi", "form", "add"} =>
        \A p \in Plugins :
            LET adds == PlatformCalls(p, "add_scope")
                lists == PlatformCalls(p, "get_scope_configs")
                creates == PlatformCalls(p, "create_scope_config")
            IN  /\ \A i, j \in adds :
                      log[i].data.scopeConfigId = log[j].data.scopeConfigId
                /\ Cardinality(lists) <= 1
                /\ adds # {} =>
                      /\ Cardinality(lists) = 1
                      /\ \A g \in lists, i \in adds :
                            /\ g < i
                            /\ log[g].conn = log[i].conn
                            /\ log[g].data # <<>> =>
                                  /\ creates = {}
                                  /\ log[i].data.scopeConfigId = log[g].data[1]
                            /\ log[g].data = <<>> =>
                                  /\ Cardinality(creates) = 1
                                  /\ \A c \in creates :
                                        /\ g < c /\ c < i
                                        /\ log[c].conn = log[i].conn
                                        /\ log[c].data.name = expected[p]
                                  /\ rConfigs[ConnKey(p, log[i].conn)] =
                                        <<log[i].data.scopeConfigId>>

\* C22 (as stated): the scope-config is created under the project name in the
\* creation path and under the connection's name in the add-repos path.
C22_NamedAfterConnection == OneScopeConfigPerPlatform(ConnectionConfigName)

\* C22: within one provisioning request and one platform every add-scope payload
\* carries the same scopeConfigId: the id of the first scope-config of the list
\* answered for the connection when that list is not empty, else the id of the one
\* scope-config the request created, named after the project in the creation path
\* and, in the add-repos path, after the connection as get_connections lists it:
\* its listed name, "connection-<id>" when it is listed without a name,
\* "connection" when the answer does not list it.
C22_OneScopeConfigPerPlatform == OneScopeConfigPerPlatform(ListedConfigName)

\* an add-repos request found no scope-config, created one and sent it with the
\* payloads of both its repositories
C22_Witness ==
    /\ req.kind = "add"
    /\ loc.conn_name = "connection-" \o str(req.conn_id.github)
    /\ PlatformCalls("github", "create_scope_config") # {}
    /\ Cardinality(PlatformCalls("github", "add_scope")) = 2
    /\ \A i \in PlatformCalls("github", "add_scope") :
          log[i].data.scopeConfigId = loc.scope_config_id


\* the project-level calls of the log, in order
ProjectLevelOps ==
    LET IsProjectLevel(e) == e.plugin = ""
        mine == SelectSeq(log, IsProjectLevel)
    IN  [i \in DOMAIN mine |-> mine[i].op]

\* the scopes a creation payload names: platform, connection id, native id
CreatedScopeRefs(payload) ==
    {<<sc.plugin, sc.connectionId, LastSegment(sc.scopeId)>> :
        sc \in Range(payload.connections)}

\* the scopes a blueprint patch names
PatchedScopeRefs(payload) ==
    UNION {{<<e.pluginName, e.connectionId, s.scopeId>> : s \in Range(e.scopes)} :
              e \in Range(payload.connections)}

\* C23: in create_multi_platform_project the project-level steps come in the order
\* project creation, blueprint patch, blueprint trigger, each after every repository
\* of both platforms has been added; the patch names the same scopes as the creation
\* payload, under the same platform and connection id, with the same timeAfter and
\* the same cron string.
C23_ProjectPatchTrigger ==
    req.kind \in {"multi", "form"} =>
        /\ IsPrefix(ProjectLevelOps,
                    <<"create_project", "patch_blueprint", "trigger_blueprint">>)
        /\ \A i \in DOMAIN log :
              log[i].plugin = "" =>
                  /\ \A j \in DOMAIN log : log[j].plugin # "" => j < i
                  /\ \A p \in Plugins :
                        Cardinality(PlatformCalls(p, "add_scope")) = Len(req.repos[p])
                  /\ Len(loc.scope_configs) = TotalRepos
        /\ \A c \in OpsOf(log, "create_project"), i \in OpsOf(log, "patch_blueprint") :
              /\ PatchedScopeRefs(log[i].data) = CreatedScopeRefs(log[c].data)
              /\ \A e \in Range(log[i].data.connections) :
                    e.connectionId = loc.conn[e.pluginName]
              /\ log[i].data.timeAfter = log[c].data.timeAfter
              /\ log[i].data.cronConfig = log[c].data.cronConfig
              /\ log[c].data.cronConfig = req.cron_config

\* a request with repositories of both platforms and a schedule other than daily
\* went through creation, patch and trigger
C23_Witness ==
    /\ req.kind = "form"
    /\ req.cron_config # "0 0 * * *"
    /\ req.repos.github # <<>> /\ req.repos.gitlab # <<>>
    /\ ProjectLevelOps = <<"create_project", "patch_blueprint", "trigger_blueprint">>
    /\ out.status = "returned"
    /\ \E i \in OpsOf(log, "patch_blueprint") :
          /\ Len(log[i].data.connections) = 2
          /\ log[i].data.timeAfter.micro = 0
          /\ log[i].data.timeAfter.day > 0


\* no entry of the connections list names a scope id twice
NoRepeatedScope(connections) ==
    \A e \in Range(connections) :
        \A i, j \in DOMAIN e.scopes : e.scopes[i].scopeId = e.scopes[j].scopeId => i = j

\* the patches link_scopes_to_project has sent
LinkPatches == {i \in OpsOf(log, "patch_blueprint") : req.kind = "add"}

\* C24: the connections link_scopes_to_project sends name no scope id twice in one
\* entry (the blueprint it read named none twice), whatever ids it is given, also
\* when the list repeats an id or holds an id already linked.
C24_LinkDeduplicates ==
    \A i \in LinkPatches :
        NoRepeatedScope(loc.connections) => NoRepeatedScope(log[i].data.connections)

\* C24, the merge the link does perform: the scopes go to the first entry of the
\* same platform and connection, or to one new entry at the end; the other entries
\* stay as they were, and an id the entry already held is not added again
C24_LinkMergesByConnection ==
    \A i \in LinkPatches :
        LET old == loc.connections
            new == log[i].data.connections
            idx == FindConnection(old, req.plugin, req.conn_id[req.plugin])
            at == IF idx = 0 THEN Len(old) + 1 ELSE idx
            had == IF idx = 0 THEN <<>> ELSE old[idx].scopes
        IN  /\ Len(new) = (IF idx = 0 THEN Len(old) + 1 ELSE Len(old))
            /\ \A k \in DOMAIN old : k # at => new[k] = old[k]
            /\ new[at].pluginName = req.plugin
            /\ new[at].connectionId = req.conn_id[req.plugin]
            /\ IsPrefix(had, new[at].scopes)
            /\ {s.scopeId : s \in Range(new[at].scopes)} =
                  {s.scopeId : s \in Range(had)} \cup Range(loc.added_scope_ids)
            /\ \A k \in (Len(had) + 1)..Len(new[at].scopes) :
                  new[at].scopes[k].scopeId \notin {s.scopeId : s \in Range(had)}

\* C25: link_scopes_to_project is idempotent on the blueprint: once its patch is
\* stored, the same call made again on the stored blueprint sends the same
\* connections list.
C25_LinkIdempotent ==
    [][(pc = "a_link_patch" /\ rProjects' # rProjects) =>
          LET p == req.plugin
              first == rProjects'[req.project_name].connections
          IN  /\ first = link_scopes_to_project(loc.connections, p, req.conn_id[p],
                                                loc.added_scope_ids)
              /\ link_scopes_to_project(first, p, req.conn_id[p],
                                        loc.added_scope_ids) = first]_vars

\* a link of two scopes, one of them linked before, has been stored
C25_Witness ==
    /\ req.kind = "add"
    /\ pc = "done"
    /\ Len(loc.added_scope_ids) = 2
    /\ \E i \in LinkPatches :
          /\ rProjects[req.project_name].connections = log[i].data.connections
          /\ rProjects[req.project_name].connections # loc.connections
          /\ \E e \in Range(loc.connections), k \in DOMAIN loc.added_scope_ids :
                /\ e.pluginName = req.plugin
                /\ e.connectionId = req.conn_id[req.plugin]
                /\ loc.added_scope_ids[k] \in {s.scopeId : s \in Range(e.scopes)}


\* the link of an add-repos request failed after scopes had been added
LinkFailedAfterAdds ==
    /\ req.kind = "add"
    /\ pc = "done"
    /\ loc.link_error # ""
    /\ loc.added_scope_ids # <<>>

\* C26: when linking the added scopes to the blueprint fails in handle_add_repos,
\* the failure is reported to the user, and the scopes added to the connection are
\* not rolled back.
C26_LinkFailureReported ==
    LinkFailedAfterAdds =>
        /\ "failure" \in Range(msgs)
        /\ MethodsUsed \subseteq {"GET", "POST", "PUT", "PATCH"}
        /\ log[Len(log)].op \in {"get_project", "get_blueprint", "patch_blueprint"}

\* C26, what the handler does on a failed link: it sends no request after the one
\* that failed, removes nothing, and the message it sends is the one it would have
\* sent had the link succeeded
C26_LinkFailureNotRolledBack ==
    LinkFailedAfterAdds =>
        /\ MethodsUsed \subseteq {"GET", "POST", "PUT", "PATCH"}
        /\ log[Len(log)].op \in {"get_project", "get_blueprint", "patch_blueprint"}
        /\ Len(msgs) = 3
        /\ msgs[3] = ResultMessage(loc.added_repos, loc.failed_repos)
        /\ msgs[3] \in {"added", "added_and_failed"}


\* the repositories of platform p whose resolve-and-add was started, in log order
Searched(p) ==
    LET IsSearch(e) == e.op = "search" /\ e.plugin = p
        mine == SelectSeq(log, IsSearch)
    IN  [i \in DOMAIN mine |-> mine[i].data]

\* the repository loops of the request are over
LoopsDone ==
    IF req.kind = "add"
    THEN pc \in {"a_link_project", "a_link_blueprint", "a_link_patch"}
            \/ (pc = "done" /\ out.status = "returned")
    ELSE ProjectStage

\* C27: the repository loops of the creation path and of the add-repos path are
\* sequential and follow the order of the list given: the repositories are taken
\* up one after the other in list order; while the resolver is sending its requests
\* for the i-th repository, and while it has answered and the add-scope request is
\* not yet sent, nothing has been asked for a later repository and every earlier
\* one is finished; each add-scope request
\* is the next request after the resolve of its own repository; and in the creation
\* path every GitHub repository is processed before any GitLab call is made.
C27_SequentialInListOrder ==
    req.kind \in {"multi", "form", "add"} =>
        /\ \A p \in Plugins :
              /\ IsPrefix(Searched(p), req.repos[p])
              /\ LoopsDone => Searched(p) = req.repos[p]
              /\ (pc \in {"m_add", "a_add"} /\ loc.plat = p /\ loc.run.stage = "search") =>
                    /\ loc.i = Len(Searched(p)) + 1
                    /\ Len(loc.results) = ScopesBefore(loc.plat) + loc.i - 1
                    /\ loc.run.calls = <<>>
              /\ (pc \in {"m_add", "a_add"} /\ loc.plat = p /\ loc.run.stage # "search") =>
                    /\ loc.i = Len(Searched(p))
                    /\ Len(loc.results) = ScopesBefore(loc.plat) + loc.i - 1
                    /\ log[Len(log)] = Entry("search", p, loc.conn[p], req.repos[p][loc.i])
                    /\ Cardinality(PlatformCalls(p, "add_scope")) < loc.i
                    /\ loc.run.calls # <<>>
                    /\ loc.run.calls[1].search = OwnerName(req.repos[p][loc.i])
              /\ (pc \in {"m_put", "a_put"} /\ loc.plat = p) =>
                    /\ loc.i = Len(Searched(p))
                    /\ Len(loc.results) = ScopesBefore(loc.plat) + loc.i - 1
                    /\ log[Len(log)] = Entry("search", p, loc.conn[p], req.repos[p][loc.i])
                    /\ Cardinality(PlatformCalls(p, "add_scope")) < loc.i
        /\ \A i \in OpsOf(log, "add_scope") :
              /\ i > 1
              /\ log[i - 1].op = "search"
              /\ log[i - 1].plugin = log[i].plugin
              /\ log[i - 1].data = log[i].data.repo
        /\ \A i \in PlatformOps("github"), j \in PlatformOps("gitlab") : i < j
        /\ PlatformOps("gitlab") # {} => Searched("github") = req.repos.github

\* an add-repos request of two repositories: the first failed in the resolver, the
\* second was then resolved and added
C27_Witness ==
    /\ req.kind = "add"
    /\ pc = "done"
    /\ Len(req.repos.github) = 2
    /\ req.repos.github[1] # req.repos.github[2]
    /\ Searched("github") = req.repos.github
    /\ Len(loc.failed_repos) = 1 /\ loc.failed_repos[1].repo = req.repos.github[1]
    /\ loc.added_repos = <<req.repos.github[2]>>
    /\ Cardinality(OpsOf(log, "add_scope")) = 1


\* the response is a failure of the transport or an error status
IsErrorResponse(r) == r.kind = "exc" \/ (r.kind = "status" /\ raise_for_status(r.code))

\* C28: apart from the one refresh after a 401 no client call is retried: a
\* transport error, a timeout or an error status other than 401 on the first
\* attempt means exactly one HTTP request and a DevLakeAPIError at once, and an error
\* on the attempt after a 401 is raised as well, without a third attempt.
C28_NoRetryBeyond401 ==
    http.requests # <<>> =>
        /\ Len(http.requests) <= 2
        /\ http.responses[1] # Status(401) =>
              /\ Len(http.requests) = 1
              /\ IsErrorResponse(http.responses[1]) =>
                    http.raised /\ http.error.kind = "DevLakeAPIError"
        /\ http.responses[1] = Status(401) =>
              /\ Len(http.requests) = 2
              /\ Len(http.responses) = 2
              /\ IsErrorResponse(http.responses[2]) =>
                    http.raised /\ http.error.kind = "DevLakeAPIError"

\* a call whose retry after the 401 met a transport error
C28_Witness ==
    /\ Len(http.requests) = 2
    /\ http.responses = <<Status(401), TransportError>>
    /\ http.raised
    /\ http.error.kind = "DevLakeAPIError"


\* the i-th resolve-and-add of the request ended in an exception: the resolver
\* raised or found no native id, or the PUT raised (a timeout is one of these)
AddRaised(i) ==
    LET sc == loc.results[i].scenario
    IN  sc[1] # "found" \/ sc[2]

\* the i-th add came back with an empty scopes list
AddEmpty(i) == ~AddRaised(i) /\ loc.results[i].scenario[3] = "empty_list"

\* the repositories at the positions of s, in the order of s
ReposAt(s) == [k \in DOMAIN s |-> req.repos[req.plugin][s[k]]]

\* positions processed so far whose add failed, and those whose add went through
FailedPositions ==
    LET Failed(i) == AddRaised(i) \/ AddEmpty(i)
    IN  SelectSeq([i \in DOMAIN loc.results |-> i], Failed)
AddedPositions ==
    LET Added(i) == ~AddRaised(i) /\ ~AddEmpty(i)
    IN  SelectSeq([i \in DOMAIN loc.results |-> i], Added)

\* C30: in handle_add_repos an exception raised while resolving or adding one
\* repository (a timeout included) is recorded against that repository in the
\* failure list and the loop goes on with the next one; after the loop every
\* requested repository is in exactly one of the added list and the failed list,
\* both in input order, so their lengths add up to the number of repositories.
C30_EveryRepoAddedOrFailed ==
    (req.kind = "add" /\ pc # "a_connections") =>
        /\ loc.added_repos = ReposAt(AddedPositions)
        /\ [k \in DOMAIN loc.failed_repos |-> loc.failed_repos[k].repo] =
              ReposAt(FailedPositions)
        /\ \A k \in DOMAIN loc.failed_repos :
              (loc.failed_repos[k].why = "error") = AddRaised(FailedPositions[k])
        /\ Len(loc.added_repos) + Len(loc.failed_repos) = Len(loc.results)
        /\ IsPrefix([i \in DOMAIN loc.results |-> loc.results[i].repo],
                    req.repos[req.plugin])
        /\ pc = "a_add" => loc.i = Len(loc.results) + 1
        /\ (LoopsDone /\ out.exc = "") =>
              Len(loc.added_repos) + Len(loc.failed_repos) = Len(req.repos[req.plugin])
        /\ \A i \in DOMAIN loc.results :
              (AddRaised(i) /\ i < Len(req.repos[req.plugin])) =>
                  (Len(loc.results) > i \/ pc \in {"a_add", "a_put"})

\* messages of the handler to the user after the acknowledgement
ModalMessages ==
    LET NotAck(m) == m # "ack" IN SelectSeq(modal.msgs, NotAck)

FailureMessages ==
    LET IsFailure(m) == m \in {"fetch_failed:" \o r : r \in Range(Reads)}
    IN  SelectSeq(modal.msgs, IsFailure)

\* C29: the three initial reads of open_add_repos_modal run at most 3 at a time; the
\* form is opened only after all three have ended successfully, and nothing is sent to
\* the user while a read is outstanding; when any read fails, whatever the order in
\* which the reads start and end, no form is opened and exactly one failure message
\* is sent
C29_FormOnlyAfterAllReads ==
    /\ Cardinality(Running(modal)) <= MaxWorkers
    /\ modal.opened => \A r \in Range(Reads) : modal.reads[r] = "ok"
    /\ modal.pc = "waiting" => ~modal.opened /\ ModalMessages = <<>>
    /\ (modal.pc = "done" /\ \E r \in Range(Reads) : modal.reads[r] = "failed")
          => /\ ~modal.opened
             /\ Len(FailureMessages) = 1
             /\ ModalMessages = FailureMessages
    /\ (modal.pc = "done" /\ \A r \in Range(Reads) : modal.reads[r] = "ok")
          => /\ FailureMessages = <<>>
             /\ modal.opened <=> (DOMAIN rConfigs # {} /\ ExistingProjects # {})

\* the GitLab read failed while the other two succeeded: one message, no form
C29_Witness ==
    /\ modal.pc = "done"
    /\ modal.reads = [github_conns |-> "ok", gitlab_conns |-> "failed", projects |-> "ok"]
    /\ modal.msgs = <<"ack", "fetch_failed:gitlab_conns">>
    /\ ~modal.opened


\* the two submissions target the same connection
SameConnection == par[1].plugin = par[2].plugin /\ par[1].conn_id = par[2].conn_id

\* C31: when two add-repos submissions for the same connection, which has no
\* scope-config yet, interleave call by call, this system still creates at most one
\* scope-config for the connection: never do both read an empty scope-config list
\* and each create one.
C31_OneScopeConfigWhenInterleaved ==
    /\ \A k \in DOMAIN createdSC : createdSC[k] <= 1
    /\ ~(/\ SameConnection
         /\ par[1].created /\ par[2].created
         /\ par[1].seen = <<>> /\ par[2].seen = <<>>)


\* both submissions have patched the blueprint of the same project
BothLinked ==
    /\ par[1].linked /\ par[2].linked
    /\ par[1].project_name = par[2].project_name

\* C32: when two link_scopes_to_project calls for the same project interleave (each
\* GET project, GET blueprint, PATCH blueprint), the blueprint after both holds the
\* scope ids added by both next to its prior entries: no PATCH of one call
\* overwrites what the other added.
C32_InterleavedLinksBothKept ==
    BothLinked =>
        LET connections == rProjects[par[1].project_name].connections
        IN  /\ \A i \in Procs :
                  Range(par[i].added_scope_ids)
                     \subseteq ScopeIdsFor(connections, par[i].plugin, par[i].conn_id)
            /\ \A i \in Procs :
                  \A e \in Range(par[i].connections) :
                     \A s \in Range(e.scopes) :
                        s.scopeId \in ScopeIdsFor(connections, e.pluginName, e.connectionId)


\* a create-project submission that passed validation has ended
CreateEnded == req.kind = "form" /\ pc = "done" /\ out.status # "rejected"

\* what the handler sent after the acknowledgement and the "working on it" message
TerminalMessages == SubSeq(msgs, 3, Len(msgs))

\* C33: every create-project submission that passes validation ends with exactly one
\* terminal outcome for the user: the success message followed by the public
\* announcement, or the failure message; the announcement only after a successful
\* creation. This for every way create_multi_platform_project can end, an add-scope
\* answer with an empty scopes list or without the id field included.
C33_OneTerminalMessage ==
    /\ CreateEnded =>
          /\ TerminalMessages \in {<<"success", "announce">>, <<"failure">>}
          /\ TerminalMessages = <<"success", "announce">> <=> out.status = "returned"
    /\ (req.kind = "form" /\ pc # "done") => "announce" \notin Range(msgs)


\* the submission names no repository, or repositories of a platform without its token
FailsValidation ==
    \/ req.repos.github = <<>> /\ req.repos.gitlab = <<>>
    \/ req.repos.github # <<>> /\ req.token.github = ""
    \/ req.repos.gitlab # <<>> /\ req.token.gitlab = ""

Acks ==
    LET IsAck(m) == m \in {"ack", "ack_errors"} IN SelectSeq(msgs, IsAck)

\* C34: handle_create_project acknowledges a submission exactly once, before
\* anything else; a submission that fails validation is acknowledged with field
\* errors, makes no call to the remote and sends no chat message; one that passes is
\* acknowledged plainly.
C34_AckOnceAndRejectQuietly ==
    req.kind = "form" =>
        /\ Len(Acks) = 1
        /\ msgs[1] = Acks[1]
        /\ FailsValidation =>
              /\ msgs = <<"ack_errors">>
              /\ log = <<>>
              /\ pc = "done" /\ out.status = "rejected"
              /\ rPipelines = 0
              /\ \A k \in DOMAIN createdSC : createdSC[k] = 0
        /\ ~FailsValidation => msgs[1] = "ack"

\* GitHub repositories were given without a GitHub token
C34_Witness ==
    /\ req.kind = "form"
    /\ req.repos.github # <<>> /\ req.token.github = ""
    /\ req.repos.gitlab = <<>>
    /\ msgs = <<"ack_errors">>
    /\ log = <<>>


\* the calls link_scopes_to_project makes
LinkOps ==
    {i \in DOMAIN log : log[i].op \in {"get_project", "get_blueprint", "patch_blueprint"}}

\* C35: handle_add_repos reads and patches the blueprint only when a successful add
\* gave at least one scope id; when every repository failed there is no GET of the
\* project or the blueprint and no PATCH, and the blueprint stays as it was.
C35_LinkOnlyWithScopeIds ==
    req.kind = "add" =>
        /\ LinkOps # {} => loc.added_scope_ids # <<>> /\ loc.added_repos # <<>>
        /\ loc.added_scope_ids = <<>> =>
              /\ LinkOps = {}
              /\ rProjects[req.project_name].connections = PriorConnections
        /\ Len(loc.added_scope_ids) <= Len(loc.added_repos)

\* both repositories of the submission failed and the handler ended without a link
C35_Witness ==
    /\ req.kind = "add" /\ pc = "done"
    /\ Len(req.repos[req.plugin]) = 2
    /\ Len(loc.failed_repos) = 2
    /\ loc.added_repos = <<>>
    /\ LinkOps = {}
    /\ msgs = <<"ack", "working", "failed">>


\* C36: a client constructed with an API token holds, before and after any number
\* of session replacements on a 401, a session whose Authorization header is
\* "Bearer <api token>", and every request a caller sends goes out with it; the
\* session of a client constructed without a token never carries the header. The
\* session is judged while no thread stands between replacing it and setting its
\* header (devlake_api.py 76-78), the requests always.
C36_SessionAuthorization ==
    /\ (\A t \in Threads : http.inflight[t].pc # "header") =>
          session.auth = NewSession(api_token).auth
    /\ api_token = "" => session.auth = ""
    /\ \A i \in DOMAIN http.requests :
          http.requests[i].auth = NewSession(api_token).auth


\* the projects page i of the list-all loop holds
ListAllPage(i) == get_projects(chat.total, i, ListAllPageSize).projects

\* what the list-all command has requested, kept and sent so far is as claimed
ListAllSafe ==
    chat.cmd = "list_all" =>
        /\ \A i \in DOMAIN chat.calls :
              /\ chat.calls[i] = [page |-> i, page_size |-> ListAllPageSize]
              /\ i < Len(chat.calls) => Len(ListAllPage(i)) = ListAllPageSize
        /\ chat.pc = "la_fetch" => chat.replies = <<>> /\ chat.page = Len(chat.calls) + 1
        /\ chat.pc = "done" =>
              /\ Len(chat.replies) = 1
              /\ chat.replies[1].kind # "fetch_failed" =>
                    /\ Len(ListAllPage(Len(chat.calls))) < ListAllPageSize
                    /\ chat.replies[1] =
                          IF chat.total = 0 THEN Reply("none")
                          ELSE [Reply("all") EXCEPT
                                   !.projects = [i \in 1..chat.total |-> i],
                                   !.total = chat.total]

\* C37: the list-all command fetches the pages 1, 2, 3, ... with page size 50, each
\* once, and stops at the first page that holds fewer than 50 projects; whatever the
\* number of projects the remote holds the loop ends, and the reply lists every
\* project exactly once in page order, or says "No projects found." when there are
\* none (a fetch that fails ends it with the failure message instead).
C37_ListAllPagesAndTerminates ==
    /\ []ListAllSafe
    /\ (chat.cmd = "list_all" /\ chat.pc = "la_fetch") ~> (chat.pc = "done")

\* 101 projects: pages of 50, 50 and 1, then the one reply with all of them
C37_Witness ==
    /\ chat.cmd = "list_all" /\ chat.pc = "done"
    /\ chat.total = 101
    /\ Len(chat.calls) = 3
    /\ Len(ListAllPage(2)) = ListAllPageSize /\ Len(ListAllPage(3)) = 1
    /\ chat.replies[1].kind = "all"
    /\ Len(chat.replies[1].projects) = 101


\* the buttons of a list message with the given action
ButtonsOf(reply, action) ==
    {i \in DOMAIN reply.buttons : reply.buttons[i].action = action}

\* C38: send_project_list with page size 10, for a non-empty page p >= 1 and the
\* remote's total count t: a Previous button is offered iff p > 1 and carries p-1, a
\* Show More button iff t > 10*p and carries p+1, and the range shown is
\* (p-1)*10+1 through (p-1)*10 + the number of projects on the page; following the
\* buttons from page 1 never asks for a page below 1.
C38_ProjectListButtons ==
    (\/ chat.cmd \in {"list", "paginate"}
     \/ chat.cmd = "mention" /\ mention_branch(lower(chat.event.text)) = "list") =>
        /\ chat.page >= 1
        /\ \A c \in Range(chat.calls) : c.page >= 1 /\ c.page_size = 10
        /\ \A k \in DOMAIN chat.replies :
              LET m == chat.replies[k]
                  p == chat.page
                  t == chat.total
              IN  m.kind = "page" =>
                    /\ m.projects # <<>>
                    /\ ButtonsOf(m, "prev") # {} <=> p > 1
                    /\ ButtonsOf(m, "next") # {} <=> t > 10 * p
                    /\ Cardinality(ButtonsOf(m, "prev")) <= 1
                    /\ Cardinality(ButtonsOf(m, "next")) <= 1
                    /\ \A i \in ButtonsOf(m, "prev") :
                          m.buttons[i].value = str_chars(p - 1) /\ int(m.buttons[i].value) = p - 1
                    /\ \A i \in ButtonsOf(m, "next") :
                          m.buttons[i].value = str_chars(p + 1) /\ int(m.buttons[i].value) = p + 1
                    /\ m.start = (p - 1) * 10 + 1
                    /\ m.end = (p - 1) * 10 + Len(m.projects)
                    /\ m.total = t

\* page 2 of 25 projects, reached by Show More: both buttons, range 11-20
C38_Witness ==
    /\ chat.cmd = "paginate" /\ chat.page = 2 /\ chat.total = 25
    /\ Len(chat.replies) = 1
    /\ chat.replies[1].kind = "page"
    /\ chat.replies[1].start = 11 /\ chat.replies[1].end = 20
    /\ Len(chat.replies[1].buttons) = 2


\* the lower-cased text of the direct message contains the keyword
Says(w) == Contains(lower(chat.event.text), w)

\* a direct message from a user that asks for the project list, not for all of it,
\* and hits none of the requirement or help keywords
AsksForList ==
    /\ chat.cmd = "dm" /\ chat.pc = "done"
    /\ chat.event.channel_type = "im" /\ chat.event.subtype # "bot_message"
    /\ Says(Keywords.list) \/ Says(Keywords.projects)
    /\ ~(Says(Keywords.list) /\ Says(Keywords.all))
    /\ ~Says(Keywords.requirement) /\ ~Says(Keywords.token) /\ ~Says(Keywords.pat)
    /\ ~Says(Keywords.scope) /\ ~Says(Keywords.help)
    /\ lower(chat.event.text) \notin Greetings

\* C39: such a direct message is answered with page 1 of the project list, or with
\* "No projects found.", or with the fetch-failure message.
C39_DirectMessageListsProjects ==
    AsksForList =>
        /\ Len(chat.replies) = 1
        /\ chat.replies[1].kind \in {"page", "none", "fetch_failed"}
        /\ chat.replies[1].kind = "page" => chat.replies[1].start = 1
        /\ chat.exc = ""

====
